---- MODULE Spec2Model ----
(***************************************************************************)
(* State-machine model of the browser agent's task controller             *)
(* (agents/browser_agent.py) together with the parts of ContextManager,   *)
(* EpisodicMemory, ReflectionPattern, ActionTools and Config it drives.   *)
(*                                                                         *)
(* One action of the model is one call of process() up to the first loop  *)
(* test, one iteration of the while loop of _execute_task_loop (with the  *)
(* post-loop code and the finally block when the iteration is the last),  *)
(* or one call of provide_human_input().                                  *)
(*                                                                         *)
(* Spec is the agent.  SpecContext, SpecDecide, SpecMemory and            *)
(* SpecMemoryLoad take a ContextManager, decide_next_action and an        *)
(* EpisodicMemory on their own, one action per call, with the agent idle. *)
(* SpecFinder takes ElementFinder.find_element_by_description over a page *)
(* of elements, SpecSimple the loop of SimpleAIBrowserAgent.run_task      *)
(* (main.py), SpecReflection ReflectionPattern.analyze_failure over a     *)
(* history of dicts, and SpecPerformReflection the agent's                *)
(* _perform_reflection over the ContextManager's own records.             *)
(* SpecAdvice takes EpisodicMemory.get_advice over episodes long enough   *)
(* to show its truncations, and SpecPlanning a PlanningAgent              *)
(* (agents/planning_agent.py), one action per call of its methods.        *)
(***************************************************************************)
EXTENDS Integers, Sequences, FiniteSets, TLC

(* ---------------------------- bounds ---------------------------------- *)
\* largest configured MAX_STEPS explored
MaxStepsCfg == 5
\* total number of non-empty process() calls and decide_next_action calls
MaxWork == 6
\* largest max_history a ContextManager on its own is built with
MaxHistoryCfg == 3
\* add_action calls on a ContextManager on its own, per task
MaxAppends == 4
\* episodes added to an EpisodicMemory on its own
MaxEpisodes == 2
\* elements of a page made of any elements of the palette
MaxElements == 2
\* elements of a page made of plain elements only
MaxLongPage == 6
\* find_element_by_description calls on one page
MaxFinds == 2
\* largest max_steps run_task is called with
MaxTaskSteps == 3
\* iterations of the loop of run_task explored in one call
MaxIterations == 5
\* action dicts in a list given to analyze_failure
MaxReflected == 6

\* longest plan a PlanningAgent holds
MaxPlanLen == 7
\* largest number of episodes in a store that is asked for advice
MaxAdvised == 4

(* ------------------------ program constants --------------------------- *)
\* reflection cadence: self.current_step % 5 == 0
REFLECTION_EVERY == 5
\* ContextManager(max_history=100): maxlen of the action-history deque
MAX_HISTORY == 100
\* get_recent_actions(10) in _perform_reflection
RECENT_COUNT == 10
\* action_history[-5:] in analyze_failure
FAILURE_WINDOW == 5
\* find_similar_episodes(..., max_results: int = 5)
DEFAULT_MAX_RESULTS == 5
\* `len(elem_text) < 20` in the button tier of find_element_by_description
SHORT_TEXT == 20
\* `found[:5]` in _get_interactive_elements
PER_SELECTOR == 5
\* `[:20]` on the list _get_interactive_elements returns
CANDIDATE_CAP == 20
\* `interactive_elements[:5]` in find_element_by_description
FALLBACK_SCAN == 5
\* `self.consecutive_errors >= 2` in run_task
ERROR_THRESHOLD == 2

\* similar_episodes[:3] of get_advice
ADVICE_EPISODES == 3
\* episode.actions[-5:] of get_advice
ADVICE_ACTIONS == 5
\* episode.learned_patterns[:3] of get_advice
ADVICE_PATTERNS == 3

(* ---------------------------- values ---------------------------------- *)
\* a key that is not present in a result dict
Absent == "absent"
\* Python None as the value of a key
PyNone == "None"
\* a numeric key that is not present in a result dict
NoStep == 0 - 1

\* shape of the "parameters" value of a decision: a mapping holding a
\* question, a mapping without one, or a JSON value that is no mapping
\* (null, a string)
ParamKinds == {"map_q", "map", "nonmap"}
\* decide_next_action returned None
NoDecision == [action |-> "None", parameters |-> "map"]
\* the action_data dicts _parse_llm_response can hand to the loop: a
\* browser action (click) and the in-process actions analyze, complete and
\* ask_human (wait, handled in-process like analyze, is not among the inputs)
Decisions ==
    [action : {"click", "analyze", "complete"}, parameters : {"map"}]
      \cup [action : {"ask_human"}, parameters : ParamKinds]

\* task texts given to process(); "" is the empty or missing task
Tasks == {"", "t1"}
\* initial_url: key missing (the default URL), or given empty
Urls == {"default", ""}
\* input_data of provide_human_input
HumanInputs == [instruction : {"continue", ""}, answer : {"", "a1"}]
\* values of config.ENABLE_REFLECTION: the attribute is missing from the
\* Config dataclass; a config object that defines it has it on or off
ReflectionCfg == {"absent", "on", "off"}

\* result dicts
Result(s, m, e, st, q, cs) ==
    [success |-> s, message |-> m, error |-> e, steps |-> st,
     question |-> q, current_step |-> cs]
\* final_result = None / no call has returned yet
NoResult == Result(FALSE, "<None>", Absent, NoStep, Absent, NoStep)

\* context_manager.current_task = None
NoTask == [task_description |-> "<None>", current_step |-> 0, constraints_ok |-> TRUE]

VARIABLES
    max_steps,          \* self.max_steps = config.MAX_STEPS
    enable_reflection,  \* config.ENABLE_REFLECTION, or "absent"
    pc,                 \* "idle": no call in progress; "running": inside the while loop
    current_step,       \* self.current_step
    is_task_complete,   \* self.is_task_complete
    needs_human_input,  \* self.needs_human_input
    is_active,          \* self.state.is_active
    action_history,     \* context_manager.action_history
    current_task,       \* context_manager.current_task
    system_context,     \* context_manager.system_context
    episodes,           \* episodic_memory.episodes
    lastCall,           \* the operation that returned last
    lastResult,         \* what it returned
    decisionLog,        \* decisions returned by decide_next_action in this run
    raised,             \* message of the exception raised inside the loop of this run
    llmCalls,           \* number of decide_next_action calls so far
    dispatches,         \* number of _execute_action calls so far
    navigated,          \* the URL the latest process() call passed to browser.navigate_to, or "none"
    runs,               \* number of process() calls with a non-empty task
    max_history,        \* context_manager.action_history.maxlen
    appended,           \* the ActionRecords appended since the latest start_new_task
    reply,              \* what llm.generate did in decide_next_action: its reply, or a raise
    decision,           \* what decide_next_action returned for it
    generateCalls,      \* number of llm.generate calls decide_next_action made
    mem_episodes,       \* EpisodicMemory.episodes of a store used on its own
    patterns,           \* EpisodicMemory.patterns
    storage_file,       \* the content of the backing file
    memCall,            \* the latest call on the store, with its arguments
    memResult,          \* what find_similar_episodes returned, or the exception add_episode raised
    advice,             \* what the latest get_advice call returned
    page,               \* the elements of the page the driver shows, in document order
    lastFind,           \* the latest find_element_by_description call: its description and outcome
    finderCalls,        \* number of find_element_by_description calls on this page
    earlierOutcome,     \* the outcome of the call before the latest, if it had the same description
    driver,             \* SimpleAIBrowserAgent.browser.driver: "none", or a browser that is "alive" or "dead"
    simple_max_steps,   \* the max_steps argument of run_task
    simple_step,        \* the local variable step of run_task
    consecutive_errors, \* self.consecutive_errors
    task_history,       \* self.task_history, by the step of each entry
    spc,                \* "idle": no run_task call in progress; "looping": inside its while loop
    iterations,         \* number of iterations of the loop in this run_task call
    lastIteration,      \* what the latest iteration did
    dict_history,       \* the list of action dicts a caller of analyze_failure holds
    lastReflection,     \* the latest analyze_failure or _perform_reflection call and its outcome
    current_plan,       \* PlanningAgent.current_plan
    current_step_index, \* PlanningAgent.current_step_index
    planCall            \* the latest call on the PlanningAgent and what it returned

vars == <<max_steps, enable_reflection, pc, current_step, is_task_complete,
          needs_human_input, is_active, action_history, current_task,
          system_context, episodes, lastCall, lastResult, decisionLog, raised,
          llmCalls, dispatches, navigated, runs, max_history, appended,
          reply, decision, generateCalls, mem_episodes, patterns, storage_file, memCall,
          memResult, advice, page, lastFind, finderCalls, earlierOutcome, driver,
          simple_max_steps, simple_step, consecutive_errors, task_history,
          spc,
          iterations, lastIteration, dict_history, lastReflection,
          current_plan, current_step_index, planCall>>

\* the variables of decide_next_action taken on its own
decidevars == <<reply, decision, generateCalls>>
\* the variables of an EpisodicMemory taken on its own
memvars == <<mem_episodes, patterns, storage_file, memCall, memResult, advice>>
\* the variables of a PlanningAgent
planvars == <<current_plan, current_step_index, planCall>>
\* the variables of a ReflectionPattern taken on its own
reflvars == <<dict_history, lastReflection>>
\* the variables of a SimpleAIBrowserAgent
simplevars == <<driver, simple_max_steps, simple_step, consecutive_errors,
                task_history, spc, iterations, lastIteration>>
\* the variables of an ElementFinder taken on its own
findervars == <<page, lastFind, finderCalls, earlierOutcome>>
\* the variables of the components that neither the agent's task loop nor
\* ContextManager, decide_next_action and EpisodicMemory touch
othervars == <<findervars, simplevars, reflvars, planvars>>
\* the variables of the agent's task loop
agentvars == <<max_steps, enable_reflection, pc, current_step, is_task_complete,
               needs_human_input, is_active, system_context, episodes, lastCall,
               lastResult, decisionLog, raised, llmCalls, dispatches, navigated,
               runs>>

\* everything of BrowserAgent with its ContextManager, decide_next_action
\* and EpisodicMemory
corevars == <<agentvars, action_history, current_task, max_history, appended,
              decidevars, memvars>>

(* ------------------- Config / BrowserAgent.__init__ ------------------- *)
\* the system prompt _setup_system_prompts adds at construction
SystemPrompt == "system_prompt"

\* the agent after BrowserAgent.__init__, but for its config
AgentStart ==
    /\ pc = "idle"
    /\ current_step = 0
    /\ is_task_complete = FALSE
    /\ needs_human_input = FALSE
    /\ is_active = FALSE
    /\ action_history = <<>>
    /\ current_task = NoTask
    /\ system_context = <<SystemPrompt>>
    /\ episodes = <<>>
    /\ lastCall = "none"
    /\ lastResult = NoResult
    /\ decisionLog = <<>>
    /\ raised = "none"
    /\ llmCalls = 0
    /\ dispatches = 0
    /\ navigated = "none"
    /\ runs = 0
    /\ appended = <<>>

\* the agent after BrowserAgent.__init__
InitAgent ==
    /\ max_steps \in 1..MaxStepsCfg
    /\ enable_reflection \in ReflectionCfg
    /\ AgentStart

\* an agent of the repository's Config that is not run
AgentUnused ==
    /\ max_steps = MaxStepsCfg
    /\ enable_reflection = "absent"
    /\ AgentStart

(* --------------------------- result dicts ----------------------------- *)
\* process(): the empty-task error
NoTaskResult == Result(FALSE, "task not provided", "No task provided", NoStep, Absent, NoStep)
\* the result of the step that decided `complete`
CompletedResult(step) == Result(TRUE, "task completed", Absent, step, Absent, NoStep)
\* action_decision.get("parameters", {}).get("question")
QuestionOf(d) == IF d.parameters = "map_q" THEN "q1" ELSE PyNone
\* the result of the step that decided `ask_human`
NeedsHumanResult(d, step) ==
    Result(FALSE, "human input required", Absent, NoStep, QuestionOf(d), step)
\* the post-loop result
StepLimitResult(step) == Result(FALSE, "step limit reached", Absent, step, Absent, NoStep)
\* faulty variant: the except branch reports the steps completed before the failing one
ExceptionResult_StepBefore(msg, step) ==
    Result(FALSE, "error while executing task", msg, step - 1, Absent, NoStep)

\* the except branch: str(e) and the step counter
ExceptionResult(msg, step) == Result(FALSE, "error while executing task", msg, step, Absent, NoStep)
\* return final_result or {...}
UnknownErrorResult == Result(FALSE, "unknown error", Absent, NoStep, Absent, NoStep)

(* ------------------------- the pieces of a step ----------------------- *)
\* faulty variant: the step test off by one (<= for <)
LoopGuard_OffByOne(complete, step, needs) ==
    ~complete /\ step <= max_steps /\ ~needs

\* (faulty variant: the loop test does not look at needs_human_input)
LoopGuard_IgnoresHumanInput(complete, step, needs) ==
    ~complete /\ step < max_steps

\* the while condition of _execute_task_loop
LoopGuard(complete, step, needs) ==
    ~complete /\ step < max_steps /\ ~needs

\* get_full_context -> get_task_context: ', '.join(constraints) raises
\* TypeError when a constraint is not a string
get_full_context(tctx) ==
    IF tctx.constraints_ok THEN "none" ELSE "TypeError: join"

\* what an action returned: a result dict, or an exception
Outcome(exc, ok) == [raised |-> exc, success |-> ok]

\* ActionTools.ACTION_MAPPING: the tags that have a browser method
ACTION_MAPPING == {"navigate", "click", "type", "press_key", "scroll", "go_back",
                   "refresh", "screenshot", "execute_js", "wait"}

\* ActionTools.execute_action: an unknown tag and an exception of the
\* browser method (method(**parameters) with parameters that are no
\* mapping, method() without its arguments) are unsuccessful results;
\* otherwise the result is the browser's (bok)
execute_action(d, bok) ==
    IF d.action \notin ACTION_MAPPING THEN Outcome("none", FALSE)
    ELSE IF d.parameters = "nonmap" THEN Outcome("none", FALSE)
    ELSE Outcome("none", bok)

\* BrowserAgent._execute_action: the in-process actions, then the browser;
\* ask_human and wait call parameters.get, which raises AttributeError
\* when parameters is not a mapping
_execute_action(d, bok) ==
    IF d.action = "analyze" THEN Outcome("none", TRUE)
    ELSE IF d.action = "complete" THEN Outcome("none", TRUE)
    ELSE IF d.action = "ask_human" THEN
        IF d.parameters = "nonmap" THEN Outcome("AttributeError: get", FALSE)
        ELSE Outcome("none", TRUE)
    ELSE IF d.action = "wait" THEN
        IF d.parameters = "nonmap" THEN Outcome("AttributeError: get", FALSE)
        ELSE Outcome("none", TRUE)
    ELSE execute_action(d, bok)

\* an ActionRecord: the action tag and its result's success flag
ActionRecord(tag, ok) == [action_type |-> tag, success |-> ok]

\* faulty variant: a full history refuses the new record
DequeAppend_KeepsOldest(hist, rec) ==
    IF Len(hist) >= max_history THEN hist ELSE Append(hist, rec)

\* deque(maxlen=max_history).append
DequeAppend(hist, rec) ==
    IF Len(hist) >= max_history THEN Append(Tail(hist), rec) ELSE Append(hist, rec)

\* ContextManager.add_action: the history
add_action(hist, tag, ok) == DequeAppend(hist, ActionRecord(tag, ok))

\* (faulty variant: add_action leaves the step counter of the task alone)
add_action_task_NoCount(tctx) == tctx

\* ContextManager.add_action: current_task.current_step += 1
add_action_task(tctx) ==
    IF tctx = NoTask THEN tctx ELSE [tctx EXCEPT !.current_step = @ + 1]

\* the last n elements of a sequence: list(s)[-n:]
LastN(s, n) == IF Len(s) <= n THEN s ELSE SubSeq(s, Len(s) - n + 1, Len(s))

\* ReflectionPattern.analyze_failure on the ActionRecord objects that
\* _perform_reflection hands it: the scan of action_history[-5:] calls
\* action.get, which an ActionRecord does not have (AttributeError,
\* raised before the try); an empty window returns needs_correction=False
analyze_failure(recent) ==
    IF LastN(recent, FAILURE_WINDOW) # <<>>
    THEN [raised |-> "AttributeError: ActionRecord.get", needs_correction |-> FALSE]
    ELSE [raised |-> "none", needs_correction |-> FALSE]

\* BrowserAgent._perform_reflection: the guidance after the reflection,
\* or the exception it raised
_perform_reflection(hist, sysctx) ==
    LET reflection == analyze_failure(LastN(hist, RECENT_COUNT))
    IN  IF reflection.raised # "none"
        THEN [raised |-> reflection.raised, sysctx |-> sysctx]
        ELSE IF reflection.needs_correction
             THEN [raised |-> "none", sysctx |-> Append(sysctx, "lesson")]
             ELSE [raised |-> "none", sysctx |-> sysctx]

\* the reflection test at the end of a step: reading
\* config.ENABLE_REFLECTION raises AttributeError when the config object
\* (the Config dataclass) has no such attribute
ReflectionStep(step, hist, sysctx) ==
    IF enable_reflection = "absent"
    THEN [raised |-> "AttributeError: ENABLE_REFLECTION", sysctx |-> sysctx]
    ELSE IF enable_reflection = "on" /\ step % REFLECTION_EVERY = 0
         THEN _perform_reflection(hist, sysctx)
         ELSE [raised |-> "none", sysctx |-> sysctx]

(* ---------------------- one iteration of the loop --------------------- *)
\* what one pass through the body of the while loop leaves behind: the
\* exception it raised (exc), whether decide_next_action and
\* _execute_action were called, the history, task context, guidance and
\* flags after it, final_result, and whether it left the loop by break
Iteration(d, bok) ==
    LET step == current_step + 1
        ctx  == get_full_context(current_task)
        base == [exc |-> "none", decided |-> FALSE, dispatched |-> FALSE,
                 hist |-> action_history, tctx |-> current_task,
                 sysctx |-> system_context, complete |-> is_task_complete,
                 needs |-> needs_human_input, final |-> NoResult, brk |-> FALSE]
    IN  IF ctx # "none" THEN [base EXCEPT !.exc = ctx]
        ELSE IF d = NoDecision THEN [base EXCEPT !.decided = TRUE, !.brk = TRUE]
        ELSE
          LET r   == _execute_action(d, bok)
              acted == [base EXCEPT !.decided = TRUE, !.dispatched = TRUE]
          IN  IF r.raised # "none" THEN [acted EXCEPT !.exc = r.raised]
              ELSE
                LET rec == [acted EXCEPT
                              !.hist = add_action(action_history, d.action, r.success),
                              !.tctx = add_action_task(current_task)]
                IN  IF d.action = "complete"
                    THEN [rec EXCEPT !.complete = TRUE, !.brk = TRUE,
                                     !.final = CompletedResult(step)]
                    ELSE IF d.action = "ask_human"
                    THEN [rec EXCEPT !.needs = TRUE, !.brk = TRUE,
                                     !.final = NeedsHumanResult(d, step)]
                    ELSE
                      LET rf == ReflectionStep(step, rec.hist, system_context)
                      IN  IF rf.raised # "none" THEN [rec EXCEPT !.exc = rf.raised]
                          ELSE [rec EXCEPT !.sysctx = rf.sysctx]

(* ------------------- after the loop: result and finally --------------- *)
\* faulty variant: the post-loop test forgets is_task_complete
PostLoopResult_IgnoresComplete(final, complete, needs, step) ==
    IF ~needs THEN StepLimitResult(step) ELSE final

\* the code after the while loop: the step-limit result unless the task
\* is complete or waits for the human
PostLoopResult(final, complete, needs, step) ==
    IF ~complete /\ ~needs THEN StepLimitResult(step) ELSE final

\* final_result.get("success", False) if final_result else False
EpisodeSuccess(final) ==
    IF final # NoResult THEN final.success ELSE FALSE

\* an Episode: the actions of the history and the success flag
Episode(hist, ok) == [actions |-> hist, success |-> ok]

\* EpisodicMemory.add_episode: self.episodes.append(episode)
add_episode(eps, hist, ok) == Append(eps, Episode(hist, ok))

\* faulty variant: only a run that succeeded is stored
FinallyEpisodes_OnlySuccess(eps, hist, final) ==
    IF hist # <<>> /\ EpisodeSuccess(final)
    THEN add_episode(eps, hist, EpisodeSuccess(final)) ELSE eps

\* the finally block: the episode is stored if the history is not empty
FinallyEpisodes(eps, hist, final) ==
    IF hist # <<>> THEN add_episode(eps, hist, EpisodeSuccess(final)) ELSE eps

\* return final_result or {"success": False, "message": ...}
ReturnValue(final) ==
    IF final # NoResult THEN final ELSE UnknownErrorResult

(* ------------------------------ actions ------------------------------- *)
\* faulty variant: the empty-task test is missing
TaskMissing_Never(t) == FALSE

\* process(): `if not task`, for the task text input_data.get("task", "")
TaskMissing(t) == t = ""

\* BrowserAgent.process(input_data) up to the first test of the loop
\* condition; when the condition is false at once, through to the return
process(t, u, cok) ==
    /\ pc = "idle"
    /\ IF TaskMissing(t)
       THEN /\ lastCall' = "process"
            /\ lastResult' = NoTaskResult
            /\ navigated' = "none"
            /\ UNCHANGED <<max_steps, enable_reflection, pc, current_step,
                           is_task_complete, needs_human_input, is_active,
                           action_history, current_task, system_context, episodes,
                           decisionLog, raised, llmCalls, dispatches, runs,
                           appended>>
       ELSE /\ runs + llmCalls < MaxWork
            /\ runs' = runs + 1
            /\ current_task' = [task_description |-> t, current_step |-> 0,
                                constraints_ok |-> cok]
            /\ action_history' = <<>>
            /\ appended' = <<>>
            /\ navigated' = IF u # "" THEN u ELSE "none"
            /\ is_task_complete' = FALSE
            /\ current_step' = 0
            /\ decisionLog' = <<>>
            /\ raised' = "none"
            /\ lastCall' = "process"
            /\ IF LoopGuard(FALSE, 0, needs_human_input)
               THEN /\ pc' = "running"
                    /\ is_active' = TRUE
                    /\ lastResult' = NoResult
                    /\ episodes' = episodes
               ELSE LET final == PostLoopResult(NoResult, FALSE, needs_human_input, 0)
                    IN  /\ pc' = "idle"
                        /\ is_active' = FALSE
                        /\ episodes' = FinallyEpisodes(episodes, <<>>, final)
                        /\ lastResult' = ReturnValue(final)
            /\ UNCHANGED <<max_steps, enable_reflection, needs_human_input,
                           system_context, llmCalls, dispatches>>
    /\ UNCHANGED <<max_history, decidevars, memvars, othervars>>

Process == \E t \in Tasks, u \in Urls, cok \in BOOLEAN : process(t, u, cok)

\* one iteration of the while loop of _execute_task_loop with the decision
\* d of the decision source and the browser's answer bok; the iteration
\* that ends the loop runs on through the post-loop code, the except
\* branch, the finally block and the return
loop_step(d, bok) ==
    /\ pc = "running"
    /\ runs + llmCalls < MaxWork
    /\ LET step  == current_step + 1
           it    == Iteration(d, bok)
           again == it.exc = "none" /\ ~it.brk
                      /\ LoopGuard(it.complete, step, it.needs)
           final == IF it.exc # "none" THEN ExceptionResult(it.exc, step)
                    ELSE PostLoopResult(it.final, it.complete, it.needs, step)
       IN  /\ current_step' = step
           /\ action_history' = it.hist
           /\ appended' = IF it.hist = action_history THEN appended
                          ELSE Append(appended, it.hist[Len(it.hist)])
           /\ current_task' = it.tctx
           /\ system_context' = it.sysctx
           /\ is_task_complete' = it.complete
           /\ needs_human_input' = it.needs
           /\ raised' = it.exc
           /\ llmCalls' = IF it.decided THEN llmCalls + 1 ELSE llmCalls
           /\ decisionLog' = IF it.decided THEN Append(decisionLog, d) ELSE decisionLog
           /\ dispatches' = IF it.dispatched THEN dispatches + 1 ELSE dispatches
           /\ IF again
              THEN /\ pc' = "running"
                   /\ UNCHANGED <<is_active, episodes, lastResult>>
              ELSE /\ pc' = "idle"
                   /\ is_active' = FALSE
                   /\ episodes' = FinallyEpisodes(episodes, it.hist, final)
                   /\ lastResult' = ReturnValue(final)
    /\ UNCHANGED <<max_steps, enable_reflection, lastCall, navigated, runs>>
    /\ UNCHANGED <<max_history, decidevars, memvars, othervars>>

LoopStep == \E d \in Decisions \cup {NoDecision}, bok \in BOOLEAN : loop_step(d, bok)

\* faulty variant: the needs_human_input test is missing
HumanInputBranch_NoStateTest(needs, inp) ==
    IF inp.instruction = "continue" THEN "continue"
    ELSE IF inp.answer # "" THEN "answer"
    ELSE "invalid"

\* provide_human_input: which branch of the if chain input_data takes
HumanInputBranch(needs, inp) ==
    IF ~needs THEN "not_required"
    ELSE IF inp.instruction = "continue" THEN "continue"
    ELSE IF inp.answer # "" THEN "answer"
    ELSE "invalid"

\* (faulty variant: the new text takes the place of the list)
add_system_context_Replaces(sysctx, text) == <<text>>

\* ContextManager.add_system_context
add_system_context(sysctx, text) == Append(sysctx, text)

\* BrowserAgent.provide_human_input(input_data)
provide_human_input(inp) ==
    /\ pc = "idle"
    /\ lastCall' = "provide_human_input"
    /\ LET branch == HumanInputBranch(needs_human_input, inp)
       IN  IF branch = "not_required"
           THEN /\ lastResult' = Result(FALSE, "human input not required", Absent,
                                        NoStep, Absent, NoStep)
                /\ UNCHANGED <<needs_human_input, system_context>>
           ELSE IF branch = "continue"
           THEN /\ needs_human_input' = FALSE
                /\ lastResult' = Result(TRUE, "continuing the task", Absent,
                                        NoStep, Absent, NoStep)
                /\ UNCHANGED system_context
           ELSE IF branch = "answer"
           THEN /\ needs_human_input' = FALSE
                /\ system_context' = add_system_context(system_context, inp.answer)
                /\ lastResult' = Result(TRUE, "answer received, continuing", Absent,
                                        NoStep, Absent, NoStep)
           ELSE /\ lastResult' = Result(FALSE, "invalid human input", Absent,
                                        NoStep, Absent, NoStep)
                /\ UNCHANGED <<needs_human_input, system_context>>
    /\ UNCHANGED <<max_steps, enable_reflection, pc, current_step,
                   is_task_complete, is_active, action_history, current_task,
                   episodes, decisionLog, raised, llmCalls, dispatches,
                   navigated, runs>>
    /\ UNCHANGED <<max_history, appended, decidevars, memvars, othervars>>

ProvideHumanInput == \E inp \in HumanInputs : provide_human_input(inp)

(* ========================= ContextManager ============================ *)
\* the action tags recorded on a ContextManager on its own
RecordTags == {"click", "type"}

\* ContextManager.start_new_task(task_description): a fresh TaskContext,
\* and the history cleared
start_new_task(t) ==
    /\ pc = "idle"
    /\ current_task' = [task_description |-> t, current_step |-> 0,
                        constraints_ok |-> TRUE]
    /\ action_history' = <<>>
    /\ appended' = <<>>
    /\ UNCHANGED <<agentvars, max_history, decidevars, memvars, othervars>>

StartNewTask == start_new_task("t1")

\* ContextManager.add_action(action_type, ..., result, ...)
ctx_add_action(tag, ok) ==
    /\ pc = "idle"
    /\ Len(appended) < MaxAppends
    /\ action_history' = add_action(action_history, tag, ok)
    /\ current_task' = add_action_task(current_task)
    /\ appended' = Append(appended, ActionRecord(tag, ok))
    /\ UNCHANGED <<agentvars, max_history, decidevars, memvars, othervars>>

AddAction == \E tag \in RecordTags, ok \in BOOLEAN : ctx_add_action(tag, ok)

(* ===================== decide_next_action ============================ *)
\* the keys a reply can give its JSON object
ReplyKeys == {"action", "description", "parameters", "confidence"}
\* the action tags _extract_action_from_text tells by their keywords, in
\* the order of its if/elif chain
KeywordTags == <<"navigate", "click", "type", "press_key", "scroll", "go_back", "refresh">>
\* the tag a reply names under its key "action"
NamedTag == "complete"

\* what llm.generate hands decide_next_action.  call: it returned a reply
\* or raised.  json: the reply has no substring from a '{' to a '}'
\* ("none"), has one that json.loads rejects ("invalid"), or has one that
\* decodes to an object ("object").  keys: the keys of that object, or for
\* a rejected text the keys it shows as "key": ... .  params: the shape of
\* the value of "parameters" ("nonmap" for a rejected text: nothing the
\* regular expression and json.loads make a mapping of).  keywords: the
\* action tags with a keyword of theirs in the text.
Replies ==
    [call : {"ok"}, json : {"none", "invalid", "object"}, keys : SUBSET ReplyKeys,
     params : ParamKinds, keywords : SUBSET {KeywordTags[i] : i \in DOMAIN KeywordTags}]
      \cup [call : {"raised"}, json : {"none"}, keys : {{}}, params : {"map"},
            keywords : {{}}]
\* decide_next_action has not been called
NoReply == [call |-> "none", json |-> "none", keys |-> {}, params |-> "map", keywords |-> {}]

\* an action_data dict, or an Action of ActionTools
ActionData(tag, params, conf, why) ==
    [action |-> tag, parameters |-> params, confidence |-> conf, reasoning |-> why]
\* None for an action_data dict or an Action
NoActionData == ActionData("None", "map", "none", "none")
\* decide_next_action has not returned
NotDecided == ActionData("<not called>", "map", "none", "none")
\* the action decide_next_action returns when nothing was parsed
DefaultAnalyze == ActionData("analyze", "map", "1.0", "action not recognized")

\* ActionTools._extract_action_from_text: the first branch of the if/elif
\* chain with a keyword in the text builds the Action (confidence 1.0 by
\* default); no keyword at all gives None
_extract_action_from_text(r) ==
    IF \E i \in DOMAIN KeywordTags : KeywordTags[i] \in r.keywords
    THEN LET first == CHOOSE i \in DOMAIN KeywordTags :
                        /\ KeywordTags[i] \in r.keywords
                        /\ \A j \in 1..(i - 1) : KeywordTags[j] \notin r.keywords
         IN  ActionData(KeywordTags[first], "map", "1.0", "keyword")
    ELSE NoActionData

\* ActionTools.parse_action_from_llm: the regular expressions for "action"
\* and "parameters" with json.loads of the parameters, then the keywords
parse_action_from_llm(r) ==
    IF {"action", "parameters"} \subseteq r.keys /\ r.params # "nonmap"
    THEN ActionData(NamedTag, r.params,
                    IF "confidence" \in r.keys THEN "given" ELSE "1.0", "regex")
    ELSE _extract_action_from_text(r)

\* BrowserAgent._parse_llm_response
_parse_llm_response(r) ==
    IF r.json = "none" THEN NoActionData
    ELSE IF r.json = "object"
    THEN IF "action" \notin r.keys \/ "description" \notin r.keys THEN NoActionData
         ELSE ActionData(NamedTag,
                         IF "parameters" \in r.keys THEN r.params ELSE "map",
                         IF "confidence" \in r.keys THEN "given" ELSE "0.8",
                         "reply")
    ELSE LET action == parse_action_from_llm(r)
         IN  IF action # NoActionData
             THEN ActionData(action.action, action.parameters, action.confidence,
                             "text analysis")
             ELSE NoActionData

\* faulty variant: a reply that is not parsed is handed on as None
decide_next_action_NoDefault(r) ==
    IF r.call = "raised" THEN NoActionData ELSE _parse_llm_response(r)

\* BrowserAgent.decide_next_action: None when llm.generate raised, the
\* parsed action, or the default analyze action
decide_next_action(r) ==
    IF r.call = "raised" THEN NoActionData
    ELSE LET action_data == _parse_llm_response(r)
         IN  IF action_data = NoActionData THEN DefaultAnalyze ELSE action_data

\* faulty variant: a call that raised is made once more
generate_calls_RetryOnFailure(r) ==
    IF r.call = "raised" THEN 2 ELSE 1

\* the llm.generate calls of one decide_next_action call: the call of
\* line 279, made once on every path; the except branch returns None
\* without another, and _parse_llm_response with the parsers of
\* ActionTools works on the text of the reply alone
generate_calls(r) ==
    LET generating == 1
        parsing    == 0
    IN  IF r.call = "raised" THEN generating ELSE generating + parsing

\* no call of decide_next_action in progress or done
DecideIdle == reply = NoReply /\ decision = NotDecided /\ generateCalls = 0

\* one call of decide_next_action with the reply r
decide(r) ==
    /\ reply = r
    /\ decision = NotDecided
    /\ decision' = decide_next_action(r)
    /\ generateCalls' = generateCalls + generate_calls(r)
    /\ UNCHANGED <<reply, agentvars, action_history, current_task, max_history,
                   appended, memvars, othervars>>

Decide == reply \in Replies /\ decide(reply)

(* ========================== EpisodicMemory =========================== *)
\* a text as the sequence of its characters; <<>> is the empty text, and
\* stands for None where a text is optional
\* the URLs of the pages episodes are stored for
EpisodeUrls == {<<"a", "b">>, <<"b", "c">>}
\* the url argument of find_similar_episodes: not given, or a text
QueryUrls == {<<>>, <<"b">>, <<"a", "b">>}
\* page types of episodes
PageTypes == {"login", "search"}
\* the page_type argument of find_similar_episodes: "" is not given
QueryPageTypes == {"", "login"}

\* `q in u` for two texts
IsSubstring(q, u) ==
    \E i \in 0..(Len(u) - Len(q)) : SubSeq(u, i + 1, i + Len(q)) = q

\* an action dict of an episode, as the finally block of the task loop
\* builds it from an ActionRecord: the tag, what the description is about,
\* and the result dict; serializable is FALSE for a result that holds a
\* value json.dump rejects (execute_javascript hands on whatever
\* driver.execute_script returned, a WebElement for a DOM node)
EpisodeAction(tag, about, ok, ser) ==
    [action_type |-> tag, action_description |-> about,
     result |-> [success |-> ok, serializable |-> ser]]

\* the actions argument of add_episode
ActionLists ==
    { <<>>,
      <<EpisodeAction("click", "login", TRUE, TRUE),
        EpisodeAction("type", "other", TRUE, TRUE)>>,
      <<EpisodeAction("execute_js", "other", TRUE, FALSE),
        EpisodeAction("click", "search", FALSE, TRUE),
        EpisodeAction("type", "other", TRUE, TRUE)>> }

\* a pattern tag: "a -> b" for two action tags, or a named pattern
SequencePattern(a, b) == <<"->", a, b>>
NamedPattern(name) == <<name, "", "">>

\* `word in tag` for the action tags in use: none of them contains
\* "click" or "type" but these two themselves
TagContains(tag, word) == tag = word

\* EpisodicMemory._extract_patterns: list(set(patterns))
_extract_patterns(actions) ==
    LET pairs == 1..(Len(actions) - 1)
    IN  {SequencePattern(actions[i].action_type, actions[i + 1].action_type) : i \in pairs}
          \cup {NamedPattern("login_sequence") : i \in {j \in pairs : actions[j].action_description = "login"}}
          \cup {NamedPattern("search_sequence") : i \in {j \in pairs : actions[j].action_description = "search"}}
          \cup {NamedPattern("click_then_type") : i \in {j \in pairs :
                   /\ TagContains(actions[j].action_type, "click")
                   /\ TagContains(actions[j + 1].action_type, "type")}}

\* EpisodicMemory._generate_id: the digest of url, title and len(actions)
_generate_id(url, title, actions) == <<url, title, Len(actions)>>

\* the fields of the Episode dataclass
EpisodeFields == {"id", "url", "title", "page_type", "actions", "timestamp",
                  "success", "learned_patterns"}

\* the Episode add_episode builds
NewEpisode(url, title, page_type, actions, success) ==
    [id |-> _generate_id(url, title, actions), url |-> url, title |-> title,
     page_type |-> page_type, actions |-> actions, timestamp |-> "now",
     success |-> success, learned_patterns |-> _extract_patterns(actions)]

\* self.patterns: a dict of counts, or what load() took from a file that
\* has another JSON value under "patterns" (kind "None", "list")
PatternTable(kind, counts) == [kind |-> kind, counts |-> counts]
EmptyTable == PatternTable("dict", <<>>)
\* self.patterns.get(pattern, 0)
PatternCount(table, tag) ==
    IF tag \in DOMAIN table.counts THEN table.counts[tag] ELSE 0

\* faulty variant: a pattern seen again is counted as seen once
UpdatePatterns_NoIncrement(table, learned) ==
    PatternTable(table.kind,
                 [t \in DOMAIN table.counts \cup learned |->
                    IF t \in learned THEN 1 ELSE PatternCount(table, t)])

\* add_episode: self.patterns[pattern] = self.patterns.get(pattern, 0) + 1
\* for every learned pattern
UpdatePatterns(table, learned) ==
    PatternTable(table.kind,
                 [t \in DOMAIN table.counts \cup learned |->
                    PatternCount(table, t) + (IF t \in learned THEN 1 ELSE 0)])

\* the backing file: missing, text json.load rejects, a JSON value that is
\* no object, or an object with what it has under "episodes" (kind
\* "missing", "null", "list") and under "patterns" (kind "missing", "dict",
\* "None", "list")
BackingFile(kind, eps, table) == [kind |-> kind, episodes |-> eps, patterns |-> table]
FileEpisodes(kind, items) == [kind |-> kind, items |-> items]
FileAbsent ==
    BackingFile("absent", FileEpisodes("missing", <<>>), PatternTable("missing", <<>>))
FileUnparsable ==
    BackingFile("unparsable", FileEpisodes("missing", <<>>), PatternTable("missing", <<>>))
FileNotObject ==
    BackingFile("not_object", FileEpisodes("missing", <<>>), PatternTable("missing", <<>>))

\* json.dump rejects the store: an action result holds a value that is
\* not JSON
Unserializable(eps) ==
    \E i \in DOMAIN eps : \E k \in DOMAIN eps[i].actions :
        ~eps[i].actions[k].result.serializable

\* EpisodicMemory.save: the file after it; open(..., 'w') truncates the
\* file and json.dump writes it piece by piece, so a dump that raises
\* (caught and printed) leaves a part of the text behind
save(eps, table) ==
    IF Unserializable(eps) THEN FileUnparsable
    ELSE BackingFile("object", FileEpisodes("list", eps), table)

\* EpisodicMemory.load after __init__ set both fields empty: the store a
\* file gives.  FileNotFoundError and every other exception leave both
\* empty; Episode(**ep) raises TypeError for a dict with other keys than
\* the fields of Episode; "patterns" is taken as it is
load(file) ==
    LET empty == [episodes |-> <<>>, patterns |-> EmptyTable]
    IN  IF file.kind # "object" THEN empty
        ELSE IF file.episodes.kind = "null" THEN empty
        ELSE IF \E i \in DOMAIN file.episodes.items :
                   DOMAIN file.episodes.items[i] # EpisodeFields THEN empty
        ELSE [episodes |-> file.episodes.items,
              patterns |-> IF file.patterns.kind = "missing" THEN EmptyTable
                           ELSE file.patterns]

\* faulty variant: a matching URL weighs as much as a matching page type
EpisodeScore_UrlWeighsOne(e, url, page_type) ==
    (IF url # <<>> /\ IsSubstring(url, e.url) THEN 1 ELSE 0)
      + (IF page_type # "" /\ e.page_type = page_type THEN 1 ELSE 0)
      + (IF e.success THEN 1 ELSE 0)

\* faulty variant: a successful episode gets nothing for its success
EpisodeScore_NoSuccessBonus(e, url, page_type) ==
    (IF url # <<>> /\ IsSubstring(url, e.url) THEN 2 ELSE 0)
      + (IF page_type # "" /\ e.page_type = page_type THEN 1 ELSE 0)

\* find_similar_episodes: the score of one episode
EpisodeScore(e, url, page_type) ==
    (IF url # <<>> /\ IsSubstring(url, e.url) THEN 2 ELSE 0)
      + (IF page_type # "" /\ e.page_type = page_type THEN 1 ELSE 0)
      + (IF e.success THEN 1 ELSE 0)

\* list.sort(key=..., reverse=True), which is stable: x goes behind every
\* element of the sorted list whose key is not smaller
InsertDescending(sorted, x, key) ==
    LET k == Cardinality({j \in DOMAIN sorted : key[sorted[j]] >= key[x]})
    IN  SubSeq(sorted, 1, k) \o <<x>> \o SubSeq(sorted, k + 1, Len(sorted))

RECURSIVE SortDescending(_, _)
SortDescending(seq, key) ==
    IF seq = <<>> THEN <<>>
    ELSE InsertDescending(SortDescending(SubSeq(seq, 1, Len(seq) - 1), key),
                          seq[Len(seq)], key)

\* faulty variant: equal scores come out newest first
find_similar_episodes_NewestFirst(eps, url, page_type, max_results) ==
    LET key    == [i \in DOMAIN eps |-> EpisodeScore(eps[i], url, page_type)]
        idx    == [i \in DOMAIN eps |-> Len(eps) + 1 - i]
        scored == SelectSeq(idx, LAMBDA i : key[i] > 0)
        sorted == SortDescending(scored, key)
    IN  SubSeq(sorted, 1, IF max_results < Len(sorted) THEN max_results ELSE Len(sorted))

\* EpisodicMemory.find_similar_episodes: the episodes it returns, each as
\* its position in self.episodes
find_similar_episodes(eps, url, page_type, max_results) ==
    LET key    == [i \in DOMAIN eps |-> EpisodeScore(eps[i], url, page_type)]
        idx    == [i \in DOMAIN eps |-> i]
        scored == SelectSeq(idx, LAMBDA i : key[i] > 0)
        sorted == SortDescending(scored, key)
    IN  SubSeq(sorted, 1, IF max_results < Len(sorted) THEN max_results ELSE Len(sorted))

\* the max_results argument of find_similar_episodes
QueryLimits == {1, DEFAULT_MAX_RESULTS}

\* a call on the store with the arguments of a query
MemCall(op, url, page_type, max_results) ==
    [op |-> op, url |-> url, page_type |-> page_type, max_results |-> max_results]
NoMemCall == MemCall("none", <<>>, "", 0)
\* what the call gave: the exception it raised, the episodes it found
MemResult(exc, found) == [raised |-> exc, found |-> found]
NoMemResult == MemResult("none", <<>>)

\* a page state as get_page_state returns it, by its detected type; a
\* state dict may come without the key
PageStates == {[page_type |-> "login"], [url |-> "u"]}

\* current_state.get('page_type', 'general')
PageTypeOf(state) ==
    IF "page_type" \in DOMAIN state THEN state.page_type ELSE "general"

\* the key_actions of one episode: the descriptions of the actions among
\* its last five whose result has a true "success"
\* (faulty variant: every action of the episode is looked at)
key_actions_WholeEpisode(actions) ==
    LET successful == SelectSeq(actions, LAMBDA a : a.result.success)
    IN  [k \in 1..Len(successful) |-> successful[k].action_description]

key_actions(actions) ==
    LET recent     == LastN(actions, ADVICE_ACTIONS)
        successful == SelectSeq(recent, LAMBDA a : a.result.success)
    IN  [k \in 1..Len(successful) |-> successful[k].action_description]

\* learned_patterns[:3]: learned_patterns is list(set(...)), whose order
\* is the iteration order of a set of strings, so the slice is any three
\* of the tags (all of them when there are no more than three)
PatternSlices(learned) ==
    { shown \in SUBSET learned :
        Cardinality(shown) = IF Cardinality(learned) < ADVICE_PATTERNS
                             THEN Cardinality(learned) ELSE ADVICE_PATTERNS }

\* the lines get_advice writes for one episode: the example line with the
\* success label, the title, the actions (no section when there is none)
\* and the patterns (no section when there is none)
AdviceBlock(i, e, shown) ==
    [episode |-> i, succeeded |-> e.success, title |-> e.title,
     actions |-> key_actions(e.actions), patterns |-> shown]

\* the text get_advice returns: "" has neither header nor blocks
Advice(called, header, blocks) ==
    [called |-> called, header |-> header, blocks |-> blocks]
NoAdvice == Advice(FALSE, FALSE, <<>>)
EmptyText == Advice(TRUE, FALSE, <<>>)

\* the loop over similar_episodes[:3]: the blocks it can write for the
\* episodes at the positions in shown
RECURSIVE AdviceBlocks(_, _)
AdviceBlocks(eps, shown) ==
    IF shown = <<>> THEN {<<>>}
    ELSE { <<AdviceBlock(Head(shown), eps[Head(shown)], slice)>> \o rest :
             slice \in PatternSlices(eps[Head(shown)].learned_patterns),
             rest \in AdviceBlocks(eps, Tail(shown)) }

\* EpisodicMemory.get_advice(current_state): the texts it can return
get_advice(eps, state) ==
    LET similar == find_similar_episodes(eps, <<>>, PageTypeOf(state),
                                         DEFAULT_MAX_RESULTS)
        first   == SubSeq(similar, 1, IF Len(similar) < ADVICE_EPISODES
                                      THEN Len(similar) ELSE ADVICE_EPISODES)
    IN  IF similar = <<>> THEN {EmptyText}
        ELSE { Advice(TRUE, TRUE, blocks) : blocks \in AdviceBlocks(eps, first) }

\* no store in use on its own
MemIdle ==
    /\ mem_episodes = <<>>
    /\ patterns = EmptyTable
    /\ storage_file = FileAbsent
    /\ memCall = NoMemCall
    /\ memResult = NoMemResult
    /\ advice = NoAdvice

\* EpisodicMemory(storage_file): __init__ with its load()
mem_construct ==
    /\ mem_episodes' = load(storage_file).episodes
    /\ patterns' = load(storage_file).patterns
    /\ memCall' = MemCall("construct", <<>>, "", 0)
    /\ memResult' = NoMemResult
    /\ advice' = NoAdvice
    /\ UNCHANGED <<storage_file, agentvars, action_history, current_task,
                   max_history, appended, decidevars, othervars>>

\* EpisodicMemory.add_episode(url, title, page_type, actions, success):
\* the episode is appended, then the counts are updated (self.patterns.get
\* raises AttributeError when self.patterns is no dict and the episode
\* has a pattern), then save()
add_episode_call(url, page_type, actions, success) ==
    /\ memCall' = MemCall("add_episode", <<>>, "", 0)
    /\ advice' = NoAdvice
    /\ LET episode == NewEpisode(url, "title", page_type, actions, success)
       IN  /\ mem_episodes' = Append(mem_episodes, episode)
           /\ IF patterns.kind # "dict" /\ episode.learned_patterns # {}
              THEN /\ memResult' = MemResult("AttributeError: get", <<>>)
                   /\ UNCHANGED <<patterns, storage_file>>
              ELSE /\ memResult' = NoMemResult
                   /\ patterns' = UpdatePatterns(patterns, episode.learned_patterns)
                   /\ storage_file' = save(mem_episodes', patterns')
    /\ UNCHANGED <<agentvars, action_history, current_task, max_history,
                   appended, decidevars, othervars>>

\* add_episode on a store of at most MaxEpisodes episodes
mem_add_episode(url, page_type, actions, success) ==
    /\ Len(mem_episodes) < MaxEpisodes
    /\ add_episode_call(url, page_type, actions, success)

\* EpisodicMemory.find_similar_episodes(url, page_type, max_results)
mem_find_similar_episodes(url, page_type, max_results) ==
    /\ memCall' = MemCall("find_similar_episodes", url, page_type, max_results)
    /\ memResult' = MemResult("none",
                       find_similar_episodes(mem_episodes, url, page_type, max_results))
    /\ advice' = NoAdvice
    /\ UNCHANGED <<mem_episodes, patterns, storage_file, agentvars, action_history,
                   current_task, max_history, appended, decidevars, othervars>>

\* EpisodicMemory.get_advice(current_state)
mem_get_advice(state) ==
    /\ memCall' = MemCall("get_advice", <<>>, PageTypeOf(state), DEFAULT_MAX_RESULTS)
    /\ memResult' = NoMemResult
    /\ advice' \in get_advice(mem_episodes, state)
    /\ UNCHANGED <<mem_episodes, patterns, storage_file, agentvars, action_history,
                   current_task, max_history, appended, decidevars, othervars>>

GetAdvice == \E state \in PageStates : mem_get_advice(state)

\* an episode of six actions: the first lies outside the last five, one
\* of the last five failed, and four patterns are learned from it
LongActions ==
    << EpisodeAction("click", "first", TRUE, TRUE),
       EpisodeAction("click", "login", TRUE, TRUE),
       EpisodeAction("click", "other", FALSE, TRUE),
       EpisodeAction("click", "other", TRUE, TRUE),
       EpisodeAction("click", "other", TRUE, TRUE),
       EpisodeAction("type", "last", TRUE, TRUE) >>

\* the add_episode calls of the runs whose store is asked for advice
AdvisedEpisodes ==
    { [page_type |-> "login", actions |-> LongActions, success |-> TRUE],
      [page_type |-> "login", actions |-> <<>>, success |-> FALSE],
      [page_type |-> "search", actions |-> LongActions, success |-> FALSE],
      [page_type |-> "search", actions |-> <<>>, success |-> TRUE] }

\* add_episode on a store of at most MaxAdvised episodes
advised_add_episode(e) ==
    /\ Len(mem_episodes) < MaxAdvised
    /\ add_episode_call(<<"a", "b">>, e.page_type, e.actions, e.success)

AdvisedAddEpisode == \E e \in AdvisedEpisodes : advised_add_episode(e)

Construct == mem_construct

AddEpisode ==
    \E url \in EpisodeUrls, page_type \in PageTypes, actions \in ActionLists,
       success \in BOOLEAN : mem_add_episode(url, page_type, actions, success)

FindSimilarEpisodes ==
    \E url \in QueryUrls, page_type \in QueryPageTypes, max_results \in QueryLimits :
        mem_find_similar_episodes(url, page_type, max_results)

\* an episode as a store wrote it to the file
StoredEpisode == NewEpisode(<<"a", "b">>, "title", "login", <<>>, TRUE)
\* the backing files an EpisodicMemory is constructed from: none, broken
\* text, a value that is no object, objects of a wrong shape (null or
\* dicts with other keys under "episodes", null or a list under
\* "patterns"), and files a store wrote
BackingFiles ==
    { FileAbsent, FileUnparsable, FileNotObject,
      BackingFile("object", FileEpisodes("null", <<>>), EmptyTable),
      BackingFile("object", FileEpisodes("list", <<[x |-> "y"]>>), EmptyTable),
      BackingFile("object", FileEpisodes("list", <<>>), PatternTable("None", <<>>)),
      BackingFile("object", FileEpisodes("list", <<StoredEpisode>>), PatternTable("list", <<>>)),
      BackingFile("object", FileEpisodes("list", <<>>), EmptyTable),
      BackingFile("object", FileEpisodes("list", <<StoredEpisode>>), EmptyTable) }

(* ============================ ElementFinder =========================== *)
(* browser/element_finder.py.  A page is the sequence of its elements in   *)
(* document order, which is the order driver.find_elements returns them    *)
(* in.  An element carries what the finder reads of it: tag, name          *)
(* attribute, own text (a sequence of words), is_displayed() and           *)
(* is_enabled().  Elements of the model carry no id, placeholder, role,    *)
(* type, title or aria-label attribute.  A WebElement is written as its    *)
(* index in the page.                                                      *)

\* str.lower() on a word
lower(w) ==
    CASE w = "Login"  -> "login"
      [] w = "Search" -> "search"
      [] OTHER        -> w

\* str.lower() on a text
LowerText(t) == [i \in DOMAIN t |-> lower(t[i])]

\* len() of a word
WordLen(w) ==
    CASE w = "Login"    -> 5
      [] w = "Search"   -> 6
      [] w = "now"      -> 3
      [] w = "to"       -> 2
      [] w = "the"      -> 3
      [] w = "customer" -> 8
      [] w = "portal"   -> 6
      [] OTHER          -> 1

\* len() of a text: its words and the blanks between them
RECURSIVE CharLen(_)
CharLen(t) ==
    IF t = <<>> THEN 0
    ELSE IF Len(t) = 1 THEN WordLen(t[1])
    ELSE WordLen(Head(t)) + 1 + CharLen(Tail(t))

\* `any(word in text for word in vocabulary)`
ContainsAny(t, vocabulary) == \E w \in vocabulary : IsSubstring(<<w>>, t)

\* the words of the search tier test (line 395); "poisk" stands for the
\* Russian word
SearchIntentWords == {"poisk", "search"}
\* the words of the button tier test (line 418); "knopka" stands for the
\* Russian word
ButtonIntentWords == {"knopka", "button"}
\* the words a button text is tested for (line 435)
SearchVocabulary == {"poisk", "search", "najti", "iskat"}

Element(tag, name, text, displayed, enabled) ==
    [tag |-> tag, name |-> name, text |-> text,
     displayed |-> displayed, enabled |-> enabled]

\* a text of 28 characters
LongText == <<"Login", "to", "the", "customer", "portal">>

\* the elements pages are made of
Palette ==
    { Element("input", "q", <<>>, TRUE, TRUE),
      Element("input", "q", <<>>, FALSE, TRUE),
      Element("input", "", <<>>, TRUE, TRUE),
      Element("button", "", <<"Login">>, TRUE, TRUE),
      Element("button", "", <<"Login">>, TRUE, FALSE),
      Element("button", "", <<"Search">>, TRUE, TRUE),
      Element("button", "", LongText, TRUE, TRUE),
      Element("div", "", <<"Login">>, TRUE, TRUE),
      Element("div", "", <<"Login">>, FALSE, TRUE) }

\* the elements pages longer than MaxElements are made of
PlainElements ==
    { Element("button", "", <<"Login">>, TRUE, FALSE),
      Element("input", "", <<>>, TRUE, TRUE) }

\* no quoted literal in a description
NoLiteral == <<>>

\* a description, by what find_element_by_description tests of it: the
\* intent words it holds outside quotes, its quoted literal, whether the
\* literal follows the marker of the text tier's pattern (the Russian word
\* for `text`, a colon and optional blanks, line 445), and the value of a
\* name='...' fragment
Description(words, literal, marked, name) ==
    [str |-> TRUE, words |-> words, literal |-> literal, marked |-> marked,
     name |-> name]

\* an argument that is no string (None)
NotAString ==
    [str |-> FALSE, words |-> {}, literal |-> NoLiteral, marked |-> FALSE,
     name |-> ""]

Descriptions ==
    { d \in { Description(w, l, m, n) :
                w \in SUBSET {"search", "button"},
                l \in {NoLiteral, <<"Login">>},
                m \in BOOLEAN, n \in {"", "q"} } :
        /\ d.marked => d.literal # NoLiteral
        /\ d.name # "" => d.literal = NoLiteral }

\* `word in description.lower()` for one of the words: the test reads the
\* whole description, the quoted literal included
Mentions(d, vocabulary) ==
    \/ d.words \cap vocabulary # {}
    \/ ContainsAny(LowerText(d.literal), vocabulary)

\* a CSS selector by the tag and the name attribute it asks for ("" for
\* any); plain is FALSE for a selector that asks for an attribute the
\* elements of the model do not carry
Css(tag, name, plain) == [tag |-> tag, name |-> name, plain |-> plain]

MatchesCss(sel, e) ==
    /\ sel.plain
    /\ sel.tag = "" \/ sel.tag = e.tag
    /\ sel.name = "" \/ sel.name = e.name

\* search_selectors of find_element_by_description
SearchSelectors ==
    << Css("textarea", "q", TRUE), Css("input", "q", TRUE),
       Css("", "", FALSE), Css("", "", FALSE), Css("input", "", FALSE),
       Css("", "search", TRUE), Css("", "", FALSE), Css("input", "", FALSE) >>

\* button_selectors of find_element_by_description
ButtonSelectors ==
    << Css("button", "", TRUE), Css("input", "", FALSE),
       Css("input", "", FALSE), Css("", "", FALSE) >>

\* interactive_selectors of _get_interactive_elements
InteractiveSelectors ==
    << Css("a", "", TRUE), Css("button", "", TRUE), Css("input", "", TRUE),
       Css("textarea", "", TRUE), Css("select", "", TRUE),
       Css("", "", FALSE), Css("", "", FALSE), Css("", "", FALSE),
       Css("", "", FALSE), Css("", "", FALSE), Css("", "", FALSE),
       Css("", "", FALSE), Css("", "", FALSE) >>

Indices(p) == [i \in 1..Len(p) |-> i]

\* driver.find_elements(By.CSS_SELECTOR, sel)
find_elements(p, sel) ==
    SelectSeq(Indices(p), LAMBDA i : MatchesCss(sel, p[i]))

\* s[:n]
Prefix(s, n) == SubSeq(s, 1, IF Len(s) < n THEN Len(s) ELSE n)

\* no element: None
NotFound == 0

\* `for elem in elements: if test(elem): return elem`, the test given as the
\* set of the elements that pass it
FirstWhere(idxs, passing) ==
    IF \E k \in 1..Len(idxs) : idxs[k] \in passing
    THEN idxs[CHOOSE k \in 1..Len(idxs) :
                /\ idxs[k] \in passing
                /\ \A j \in 1..(k - 1) : idxs[j] \notin passing]
    ELSE NotFound

\* the elements the loop over selectors visits, in the order it visits them
RECURSIVE ScanOrder(_, _)
ScanOrder(p, sels) ==
    IF sels = <<>> THEN <<>>
    ELSE find_elements(p, Head(sels)) \o ScanOrder(p, Tail(sels))

\* elem.is_displayed() and elem.is_enabled()
Usable(p, i) == p[i].displayed /\ p[i].enabled

\* lines 395-416
SearchTier(p) ==
    FirstWhere(ScanOrder(p, SearchSelectors), {i \in 1..Len(p) : Usable(p, i)})

\* the test of lines 431-440 on one button
ButtonAccepted(p, i) ==
    /\ Usable(p, i)
    /\ \/ ContainsAny(LowerText(p[i].text), SearchVocabulary)
       \/ p[i].text # <<>> /\ CharLen(p[i].text) < SHORT_TEXT

\* lines 418-442
ButtonTier(p) ==
    FirstWhere(ScanOrder(p, ButtonSelectors), {i \in 1..Len(p) : ButtonAccepted(p, i)})

\* driver.find_elements(By.XPATH, "//*[text()='T' or contains(text(), 'T')]")
find_elements_by_text(p, literal) ==
    SelectSeq(Indices(p), LAMBDA i : IsSubstring(literal, p[i].text))

\* lines 444-457
TextTier(p, literal) ==
    FirstWhere(find_elements_by_text(p, literal), {i \in 1..Len(p) : Usable(p, i)})

\* lines 459-477 for the name pattern
AttributeTier(p, name) ==
    FirstWhere(SelectSeq(Indices(p), LAMBDA i : p[i].name = name),
               {i \in 1..Len(p) : Usable(p, i)})

\* _generate_simple_xpath: by the name attribute when there is one, else
\* the path from the root, which no two elements share
XPath(p, i) ==
    IF p[i].name # "" THEN [by |-> "name", name |-> p[i].name, pos |-> 0]
    ELSE [by |-> "path", name |-> "", pos |-> i]

\* driver.find_element(By.XPATH, xpath): the first element the path selects
find_element_by_xpath(p, x) ==
    IF x.by = "name"
    THEN FirstWhere(Indices(p), {i \in 1..Len(p) : p[i].name = x.name})
    ELSE x.pos

\* the elements the loop of _get_interactive_elements describes
RECURSIVE Described(_, _)
Described(p, sels) ==
    IF sels = <<>> THEN <<>>
    ELSE SelectSeq(Prefix(find_elements(p, Head(sels)), PER_SELECTOR),
                   LAMBDA i : p[i].displayed)
         \o Described(p, Tail(sels))

\* `unique_elements[elem.xpath] = elem` over the list: the keys of the dict
\* in insertion order
RECURSIVE UniqueXPaths(_, _)
UniqueXPaths(p, idxs) ==
    IF idxs = <<>> THEN <<>>
    ELSE LET rest == UniqueXPaths(p, SubSeq(idxs, 1, Len(idxs) - 1))
             x    == XPath(p, idxs[Len(idxs)])
         IN  IF \E k \in 1..Len(rest) : rest[k] = x THEN rest
             ELSE Append(rest, x)

\* _get_interactive_elements, by the xpath of each descriptor
_get_interactive_elements(p) ==
    Prefix(UniqueXPaths(p, Described(p, InteractiveSelectors)), CANDIDATE_CAP)

\* lines 479-488
FallbackTier_EveryOtherCallBackwards(p) ==
    LET cands == Prefix(_get_interactive_elements(p), FALLBACK_SCAN)
        elems == [k \in 1..Len(cands) |->
                    find_element_by_xpath(p,
                        cands[IF finderCalls % 2 = 0 THEN k
                              ELSE Len(cands) + 1 - k])]
    IN  FirstWhere(elems, {i \in 1..Len(p) : Usable(p, i)})

FallbackTier(p) ==
    LET cands == Prefix(_get_interactive_elements(p), FALLBACK_SCAN)
        elems == [k \in 1..Len(cands) |-> find_element_by_xpath(p, cands[k])]
    IN  FirstWhere(elems, {i \in 1..Len(p) : Usable(p, i)})

\* what the body of the try block does: it returns an element or None, or
\* an exception leaves it
FinderOutcome(exc, element) == [raised |-> exc, element |-> element]

Resolution(p, d) ==
    IF ~d.str THEN FinderOutcome(TRUE, NotFound)
    ELSE LET intent == IF Mentions(d, SearchIntentWords) THEN SearchTier(p)
                       ELSE IF Mentions(d, ButtonIntentWords) THEN ButtonTier(p)
                       ELSE NotFound
             text   == IF d.marked THEN TextTier(p, d.literal) ELSE NotFound
             attr   == IF d.name # "" THEN AttributeTier(p, d.name) ELSE NotFound
         IN  FinderOutcome(FALSE,
                 IF intent # NotFound THEN intent
                 ELSE IF text # NotFound THEN text
                 ELSE IF attr # NotFound THEN attr
                 ELSE FallbackTier(p))

\* find_element_by_description: `except Exception: return None` around it
find_element_by_description_Unguarded(p, d) == Resolution(p, d)

find_element_by_description(p, d) ==
    LET outcome == Resolution(p, d)
    IN  IF outcome.raised THEN FinderOutcome(FALSE, NotFound) ELSE outcome

\* a call of find_element_by_description and what it did
FinderCall(d, outcome) == [description |-> d, outcome |-> outcome]
NoFinderCall == FinderCall(NotAString, FinderOutcome(TRUE, NotFound))
\* no earlier call with the same description
NoOutcome == FinderOutcome(TRUE, NotFound)

FinderIdle ==
    /\ page = <<>>
    /\ lastFind = NoFinderCall
    /\ finderCalls = 0
    /\ earlierOutcome = NoOutcome

\* the pages explored: any page of up to MaxElements elements, and longer
\* ones up to MaxLongPage elements made of PlainElements
PageFits(p) ==
    \/ Len(p) <= MaxElements
    \/ /\ Len(p) <= MaxLongPage
       /\ \A i \in 1..Len(p) : p[i] \in PlainElements

\* the page the driver shows gains an element
page_grows(e) ==
    /\ PageFits(Append(page, e))
    /\ page' = Append(page, e)
    /\ lastFind' = NoFinderCall
    /\ finderCalls' = 0
    /\ earlierOutcome' = NoOutcome
    /\ UNCHANGED <<corevars, simplevars, reflvars, planvars>>

PageGrows == \E e \in Palette : page_grows(e)

find_element(d) ==
    /\ finderCalls < MaxFinds
    /\ lastFind' = FinderCall(d, find_element_by_description(page, d))
    /\ finderCalls' = finderCalls + 1
    /\ earlierOutcome' = IF finderCalls > 0 /\ lastFind.description = d
                         THEN lastFind.outcome
                         ELSE NoOutcome
    /\ UNCHANGED <<page, corevars, simplevars, reflvars, planvars>>

FindElement == \E d \in Descriptions \cup {NotAString} : find_element(d)

(* ======================== SimpleAIBrowserAgent ======================== *)
(* main.py: run_task.  One action of the model is the call of run_task up  *)
(* to the first loop test, or one iteration of its while loop, with        *)
(* _show_task_results and the return when the iteration is the last.       *)

\* what _force_google_search does: one navigation to the search URL and no
\* request to the decision source
_force_google_search == [navigated |-> "google_search_url", asked |-> 0]

\* the failure bookkeeping of lines 452-457 and 488-497 on the counter:
\* its value after the increment, whether the forced search ran, its value
\* when the iteration ends, and the requests to the decision source made
\* on the way
count_failure_NeverResets(errors) ==
    LET n == errors + 1
    IN  [peak |-> n, forced |-> n >= ERROR_THRESHOLD, errors |-> n,
         asked |-> IF n >= ERROR_THRESHOLD THEN _force_google_search.asked ELSE 0]

count_failure(errors) ==
    LET n == errors + 1
    IN  [peak |-> n, forced |-> n >= ERROR_THRESHOLD,
         errors |-> IF n >= ERROR_THRESHOLD THEN 0 ELSE n,
         asked |-> IF n >= ERROR_THRESHOLD THEN _force_google_search.asked ELSE 0]

\* (faulty variant: a successful action leaves the counter as it is)
count_success_KeepsCount ==
    [peak |-> 0, forced |-> FALSE, errors |-> consecutive_errors, asked |-> 0]

\* lines 481-486 on the counter
count_success == [peak |-> 0, forced |-> FALSE, errors |-> 0, asked |-> 0]

\* self.browser.driver after the check of lines 442-447: a browser that
\* answers stays; one that does not is stopped and started again, and a
\* start that fails leaves self.driver as it was
DriverAfterCheck(d, starts) ==
    IF d = "alive" THEN "alive"
    ELSE IF starts THEN "alive" ELSE d

\* analyze_page returns {"error": ...} when there is no driver object; with
\* one, get_page_state never raises and hands back a state dict even for a
\* browser that does not answer
AnalysisFails(d) == d = "none"

\* the actions decide_action returns
SimpleActions == {"google_search", "complete"}

\* what the latest iteration did
IterationRecord(analysed, executed, failed, peak, forced, asked) ==
    [analysed |-> analysed, executed |-> executed, failed |-> failed,
     peak |-> peak, forced |-> forced, asked |-> asked]
NoIteration == IterationRecord(FALSE, FALSE, FALSE, 0, FALSE, 0)

SimpleIdle ==
    /\ driver = "unused"
    /\ simple_max_steps = 0
    /\ simple_step = 0
    /\ consecutive_errors = 0
    /\ task_history = <<>>
    /\ spc = "idle"
    /\ iterations = 0
    /\ lastIteration = NoIteration

\* run_task(task, max_steps) up to the first loop test
run_task(n) ==
    /\ spc = "idle"
    /\ driver # "unused"
    /\ simple_max_steps' = n
    /\ task_history' = <<>>
    /\ consecutive_errors' = 0
    /\ simple_step' = 1
    /\ iterations' = 0
    /\ lastIteration' = NoIteration
    /\ spc' = IF 1 <= n THEN "looping" ELSE "idle"
    /\ UNCHANGED <<driver, corevars, findervars, reflvars, planvars>>

RunTask == \E n \in 0..MaxTaskSteps : run_task(n)

\* one iteration of the while loop.  dies: the browser stops answering
\* before the check; starts: whether BrowserController.start() succeeds if
\* it is called; action, ok: what decide_action returns and whether
\* execute_action reports success
run_task_iteration(dies, starts, action, ok) ==
    /\ spc = "looping"
    /\ simple_step <= simple_max_steps
    /\ iterations < MaxIterations
    /\ iterations' = iterations + 1
    /\ LET checked == IF dies /\ driver = "alive" THEN "dead" ELSE driver
           d       == DriverAfterCheck(checked, starts)
           success == action = "complete" \/ ok
       IN  /\ driver' = d
           /\ IF AnalysisFails(d)
              THEN LET c == count_failure(consecutive_errors)
                   IN  /\ consecutive_errors' = c.errors
                       /\ lastIteration' = IterationRecord(FALSE, FALSE, TRUE,
                                               c.peak, c.forced, c.asked)
                       /\ UNCHANGED <<simple_step, task_history, spc>>
              ELSE LET c == IF success THEN count_success
                            ELSE count_failure(consecutive_errors)
                       done == success /\ action = "complete"
                   IN  /\ task_history' = Append(task_history, simple_step)
                       /\ consecutive_errors' = c.errors
                       /\ lastIteration' = IterationRecord(TRUE, TRUE, ~success,
                                               c.peak, c.forced, c.asked + 1)
                       /\ simple_step' = IF done THEN simple_step ELSE simple_step + 1
                       /\ spc' = IF done \/ simple_step + 1 > simple_max_steps
                                 THEN "idle" ELSE "looping"
    /\ UNCHANGED <<simple_max_steps, corevars, findervars, reflvars, planvars>>

RunTaskIteration ==
    \E dies \in BOOLEAN, starts \in BOOLEAN, action \in SimpleActions,
       ok \in BOOLEAN : run_task_iteration(dies, starts, action, ok)

(* ========================= ReflectionPattern ========================== *)
(* patterns/reflection_pattern.py: analyze_failure on a list of action     *)
(* dicts, the argument its signature names, and _perform_reflection of the *)
(* agent on a ContextManager's history.                                    *)

\* an action dict, by what analyze_failure reads of it: whether it has a
\* 'result' entry, and the 'success' entry of that result
ActionDict(has_result, success) == [has_result |-> has_result, success |-> success]

ActionDicts ==
    {ActionDict(TRUE, TRUE), ActionDict(TRUE, FALSE), ActionDict(FALSE, FALSE)}

\* `not action.get('result', {}).get('success', False)`
DictFailed(a) == ~(a.has_result /\ a.success)

\* faulty variant: the scan covers the whole list
recent_failures_WholeHistory(history) == SelectSeq(history, DictFailed)

\* recent_failures: the failures among action_history[-5:]
recent_failures(history) == SelectSeq(LastN(history, FAILURE_WINDOW), DictFailed)

\* what llm.generate does for the reflection prompt: it raises, or returns a
\* text, which is empty or not, holds a correction keyword or not, and
\* names a lesson or not
ReflectionResponse(call, empty, keyword, lesson) ==
    [call |-> call, empty |-> empty, keyword |-> keyword, lesson |-> lesson]

ReflectionResponses ==
    { ReflectionResponse("raise", TRUE, FALSE, FALSE),
      ReflectionResponse("text", TRUE, FALSE, FALSE),
      ReflectionResponse("text", FALSE, FALSE, FALSE),
      ReflectionResponse("text", FALSE, TRUE, FALSE),
      ReflectionResponse("text", FALSE, TRUE, TRUE) }

\* a ReflectionResult, the requests made to the decision source on the way
\* to it, and the exception raised instead of it
ReflectionResult(needs_correction, plan, lesson, calls, exc) ==
    [needs_correction |-> needs_correction, correction_plan |-> plan,
     learned_lesson |-> lesson, llm_calls |-> calls, raised |-> exc]

\* ReflectionPattern.analyze_failure(action_history, current_state,
\* task_description) on action dicts and a page-state dict
analyze_failure_of_dicts(history, response) ==
    IF recent_failures(history) = <<>>
    THEN ReflectionResult(FALSE, PyNone, PyNone, 0, "none")
    ELSE IF response.call = "raise"
    THEN ReflectionResult(FALSE, PyNone, PyNone, 1, "none")
    ELSE ReflectionResult(response.keyword,
                          IF response.empty THEN "" ELSE "plan",
                          IF response.lesson THEN "lesson" ELSE PyNone,
                          1, "none")

\* the latest call, its response of the decision source, and its outcome
ReflectionCall(op, response, result) ==
    [op |-> op, response |-> response, result |-> result]
NoReflectionCall ==
    ReflectionCall("none", ReflectionResponse("raise", TRUE, FALSE, FALSE),
                   ReflectionResult(FALSE, PyNone, PyNone, 0, "none"))

ReflectionIdle ==
    /\ dict_history = <<>>
    /\ lastReflection = NoReflectionCall

\* a caller of analyze_failure adds an action dict to its list
dict_history_grows(a) ==
    /\ Len(dict_history) < MaxReflected
    /\ dict_history' = Append(dict_history, a)
    /\ lastReflection' = NoReflectionCall
    /\ UNCHANGED <<corevars, findervars, simplevars, planvars>>

DictHistoryGrows == \E a \in ActionDicts : dict_history_grows(a)

\* reflection_pattern.analyze_failure(dict_history, state, task)
analyze_failure_call(response) ==
    /\ lastReflection' = ReflectionCall("analyze_failure", response,
                                    analyze_failure_of_dicts(dict_history, response))
    /\ UNCHANGED <<dict_history, corevars, findervars, simplevars, planvars>>

AnalyzeFailure == \E response \in ReflectionResponses : analyze_failure_call(response)

\* BrowserAgent._perform_reflection(task) with reflection enabled, on the
\* ActionRecord objects of the ContextManager
perform_reflection(response) ==
    /\ pc = "idle"
    /\ enable_reflection = "on"
    /\ LET r == _perform_reflection(action_history, system_context)
       IN  /\ system_context' = r.sysctx
           /\ lastReflection' = ReflectionCall("_perform_reflection", response,
                                ReflectionResult(FALSE, PyNone, PyNone, 0, r.raised))
    /\ UNCHANGED <<max_steps, enable_reflection, pc, current_step,
                   is_task_complete, needs_human_input, is_active, episodes,
                   lastCall, lastResult, decisionLog, raised, llmCalls,
                   dispatches, navigated, runs, action_history, current_task,
                   max_history, appended, decidevars, memvars, dict_history,
                   findervars, simplevars, planvars>>

PerformReflection == \E response \in ReflectionResponses : perform_reflection(response)

(* ============================ PlanningAgent =========================== *)
\* a PlanStep: its number, its action, whether its description is that of
\* a replanned step, and is_completed
PlanStep(number, action, alternative, done) ==
    [step_number |-> number, action |-> action, alternative |-> alternative,
     is_completed |-> done]
\* None where a PlanStep is expected
NoPlanStep == PlanStep(0 - 1, "None", FALSE, FALSE)

\* PlanningAgent._create_default_plan
_create_default_plan ==
    << PlanStep(1, "navigate", FALSE, FALSE), PlanStep(2, "type", FALSE, FALSE),
       PlanStep(3, "press_key", FALSE, FALSE), PlanStep(4, "click", FALSE, FALSE),
       PlanStep(5, "analyze", FALSE, FALSE) >>

\* what llm.generate_structured does in create_plan: it raises, or gives a
\* dict whose "steps" are step dicts, here by their "action"; the action
\* is the model's choice among the agent's action tags
PlanReply(exc, steps) == [raised |-> exc, steps |-> steps]
PlanReplies ==
    { PlanReply(TRUE, <<>>), PlanReply(FALSE, <<>>),
      PlanReply(FALSE, <<"click">>), PlanReply(FALSE, <<"type", "complete">>) }

\* PlanningAgent.create_plan: a PlanStep per step dict, every one with
\* the default is_completed, or the default plan when the call raised
create_plan(r) ==
    IF r.raised THEN _create_default_plan
    ELSE [k \in 1..Len(r.steps) |-> PlanStep(k, r.steps[k], FALSE, FALSE)]

\* (faulty variant: the last step of the plan is never handed out)
get_next_step_SkipsLast(plan, index) ==
    IF index + 1 < Len(plan) THEN plan[index + 1] ELSE NoPlanStep

\* PlanningAgent.get_next_step
get_next_step(plan, index) ==
    IF index < Len(plan) THEN plan[index + 1] ELSE NoPlanStep

\* PlanningAgent._replan_remaining: an analyze step, then the old steps
\* as new PlanSteps, renumbered
_replan_remaining(index, old_steps) ==
    <<PlanStep(index + 1, "analyze", FALSE, FALSE)>>
      \o [k \in 1..Len(old_steps) |->
            PlanStep(index + k + 1, old_steps[k].action, TRUE, FALSE)]

\* the dict decide_next_action returns: the action, whether the
\* description is that of the finished task, and the step under
\* parameters["step_info"]
PlanDecision(action, finished, step_info) ==
    [action |-> action, finished |-> finished, step_info |-> step_info]
NoPlanDecision == PlanDecision("<not called>", FALSE, NoPlanStep)

\* PlanningAgent.decide_next_action
plan_decide_next_action(plan, index) ==
    LET next_step == get_next_step(plan, index)
    IN  IF next_step = NoPlanStep THEN PlanDecision("complete", TRUE, NoPlanStep)
        ELSE PlanDecision(next_step.action, FALSE, next_step)

\* a call on the PlanningAgent: the method, whether process() reported
\* success, the step get_next_step returned, the dict decide_next_action
\* returned
PlanCall(op, success, step, returned) ==
    [op |-> op, success |-> success, step |-> step, returned |-> returned]
NoPlanCall == PlanCall("none", FALSE, NoPlanStep, NoPlanDecision)

\* PlanningAgent.__init__
PlanIdle ==
    /\ current_plan = <<>>
    /\ current_step_index = 0
    /\ planCall = NoPlanCall

\* PlanningAgent.process(input_data)
plan_process(task, r) ==
    /\ IF task = "" \/ create_plan(r) = <<>>
       THEN /\ planCall' = PlanCall("process", FALSE, NoPlanStep, NoPlanDecision)
            /\ UNCHANGED <<current_plan, current_step_index>>
       ELSE /\ current_plan' = create_plan(r)
            /\ current_step_index' = 0
            /\ planCall' = PlanCall("process", TRUE, NoPlanStep, NoPlanDecision)
    /\ UNCHANGED <<corevars, findervars, simplevars, reflvars>>

PlanProcess == \E task \in Tasks, r \in PlanReplies : plan_process(task, r)

\* PlanningAgent.get_next_step()
plan_get_next_step ==
    /\ planCall' = PlanCall("get_next_step", FALSE,
                            get_next_step(current_plan, current_step_index),
                            NoPlanDecision)
    /\ UNCHANGED <<current_plan, current_step_index, corevars, findervars,
                   simplevars, reflvars>>

GetNextStep == plan_get_next_step

\* PlanningAgent.complete_current_step()
complete_current_step ==
    /\ IF current_step_index < Len(current_plan)
       THEN /\ current_plan' = [current_plan EXCEPT
                                  ![current_step_index + 1].is_completed = TRUE]
            /\ current_step_index' = current_step_index + 1
       ELSE UNCHANGED <<current_plan, current_step_index>>
    /\ planCall' = PlanCall("complete_current_step", FALSE, NoPlanStep, NoPlanDecision)
    /\ UNCHANGED <<corevars, findervars, simplevars, reflvars>>

CompleteCurrentStep == complete_current_step

\* PlanningAgent.adjust_plan(feedback), by feedback.get("needs_adjustment")
adjust_plan(needs_adjustment) ==
    /\ LET remaining_steps == SubSeq(current_plan, current_step_index + 1,
                                     Len(current_plan))
       IN  IF needs_adjustment /\ remaining_steps # <<>>
           THEN /\ Len(current_plan) < MaxPlanLen
                /\ current_plan' = SubSeq(current_plan, 1, current_step_index)
                                     \o _replan_remaining(current_step_index,
                                                          remaining_steps)
           ELSE UNCHANGED current_plan
    /\ planCall' = PlanCall("adjust_plan", FALSE, NoPlanStep, NoPlanDecision)
    /\ UNCHANGED <<current_step_index, corevars, findervars, simplevars, reflvars>>

AdjustPlan == \E needs_adjustment \in BOOLEAN : adjust_plan(needs_adjustment)

\* PlanningAgent.decide_next_action(context)
plan_decide ==
    /\ planCall' = PlanCall("decide_next_action", FALSE, NoPlanStep,
                            plan_decide_next_action(current_plan, current_step_index))
    /\ UNCHANGED <<current_plan, current_step_index, corevars, findervars,
                   simplevars, reflvars>>

PlanDecide == plan_decide

(* ========================= specifications ============================ *)
\* none of them in use
CoreIdle ==
    /\ AgentUnused
    /\ max_history = MAX_HISTORY
    /\ DecideIdle
    /\ MemIdle

\* the components outside the agent's task loop are not in use
OthersIdle ==
    /\ FinderIdle
    /\ SimpleIdle
    /\ ReflectionIdle
    /\ PlanIdle

\* the agent: BrowserAgent(config, llm, browser) with its ContextManager();
\* decide_next_action and the episodic store on their own are not in use
Init ==
    /\ InitAgent
    /\ max_history = MAX_HISTORY
    /\ DecideIdle
    /\ MemIdle
    /\ OthersIdle

Next == Process \/ LoopStep \/ ProvideHumanInput

Spec == Init /\ [][Next]_vars

\* a ContextManager(max_history) on its own
InitContext ==
    /\ AgentUnused
    /\ max_history \in 1..MaxHistoryCfg
    /\ DecideIdle
    /\ MemIdle
    /\ OthersIdle

NextContext == StartNewTask \/ AddAction

SpecContext == InitContext /\ [][NextContext]_vars

\* the store a file gives, right after EpisodicMemory(storage_file)
Constructed ==
    /\ mem_episodes = load(storage_file).episodes
    /\ patterns = load(storage_file).patterns
    /\ memCall = MemCall("construct", <<>>, "", 0)
    /\ memResult = NoMemResult
    /\ advice = NoAdvice

\* an EpisodicMemory on its own that starts without a backing file
InitMemory ==
    /\ AgentUnused
    /\ max_history = MAX_HISTORY
    /\ DecideIdle
    /\ OthersIdle
    /\ storage_file = FileAbsent
    /\ Constructed

NextMemory == Construct \/ AddEpisode \/ FindSimilarEpisodes

SpecMemory == InitMemory /\ [][NextMemory]_vars

\* an EpisodicMemory on its own constructed from any backing file
InitMemoryLoad ==
    /\ AgentUnused
    /\ max_history = MAX_HISTORY
    /\ DecideIdle
    /\ OthersIdle
    /\ storage_file \in BackingFiles
    /\ Constructed

SpecMemoryLoad == InitMemoryLoad /\ [][NextMemory]_vars

\* a PlanningAgent on its own
InitPlanning == CoreIdle /\ FinderIdle /\ SimpleIdle /\ ReflectionIdle /\ PlanIdle
NextPlanning ==
    PlanProcess \/ GetNextStep \/ CompleteCurrentStep \/ AdjustPlan \/ PlanDecide
SpecPlanning == InitPlanning /\ [][NextPlanning]_vars

\* an EpisodicMemory on its own that is asked for advice and queried
InitAdvice == InitMemory
NextAdvice == AdvisedAddEpisode \/ GetAdvice \/ FindSimilarEpisodes
SpecAdvice == InitAdvice /\ [][NextAdvice]_vars

\* decide_next_action on its own, for every reply of the decision source
InitDecide ==
    /\ AgentUnused
    /\ max_history = MAX_HISTORY
    /\ reply \in Replies
    /\ decision = NotDecided
    /\ generateCalls = 0
    /\ MemIdle
    /\ OthersIdle

NextDecide == Decide

SpecDecide == InitDecide /\ [][NextDecide]_vars

\* an ElementFinder on its own: pages grow element by element, and
\* find_element_by_description is called on them
InitFinder ==
    /\ CoreIdle
    /\ FinderIdle
    /\ SimpleIdle
    /\ ReflectionIdle
    /\ PlanIdle

NextFinder == PageGrows \/ FindElement

SpecFinder == InitFinder /\ [][NextFinder]_vars

\* a SimpleAIBrowserAgent whose BrowserController either started a browser
\* or failed to (initialize() returned False and left driver at None)
InitSimple ==
    /\ CoreIdle
    /\ FinderIdle
    /\ ReflectionIdle
    /\ PlanIdle
    /\ driver \in {"none", "alive"}
    /\ simple_max_steps = 0
    /\ simple_step = 0
    /\ consecutive_errors = 0
    /\ task_history = <<>>
    /\ spc = "idle"
    /\ iterations = 0
    /\ lastIteration = NoIteration

NextSimple == RunTask \/ RunTaskIteration

SpecSimple == InitSimple /\ [][NextSimple]_vars

\* an agent whose config enables reflection, its loop idle
ReflectionEnabled ==
    /\ max_steps = MaxStepsCfg
    /\ enable_reflection = "on"
    /\ AgentStart
    /\ max_history = MAX_HISTORY
    /\ DecideIdle
    /\ MemIdle
    /\ FinderIdle
    /\ SimpleIdle
    /\ ReflectionIdle
    /\ PlanIdle

\* a ReflectionPattern on its own: analyze_failure on lists of action dicts
InitReflection == ReflectionEnabled

NextReflection == DictHistoryGrows \/ AnalyzeFailure

SpecReflection == InitReflection /\ [][NextReflection]_vars

\* _perform_reflection on its own, on the history a ContextManager records
InitPerformReflection == ReflectionEnabled

NextPerformReflection == AddAction \/ PerformReflection

SpecPerformReflection == InitPerformReflection /\ [][NextPerformReflection]_vars

(* ============================ properties ============================== *)
Last(s) == s[Len(s)]

\* some step of the loop has just asked the decision source, and got d
Decided(d) == llmCalls' = llmCalls + 1 /\ Last(decisionLog') = d

\* a call of process() with a task returns in this step
RunReturns ==
    /\ pc' = "idle"
    /\ lastCall' = "process"
    /\ pc = "running" \/ runs' = runs + 1

(* C1: the loop step counter stays within 0..max_steps in every state of a
   run, and once it has reached max_steps no decision is requested and no
   action is dispatched. *)
C1_StepBudget ==
    [][ /\ 0 <= current_step /\ current_step <= max_steps
        /\ 0 <= current_step' /\ current_step' <= max_steps'
        /\ current_step >= max_steps =>
              llmCalls' = llmCalls /\ dispatches' = dispatches ]_vars

\* a run has used its whole budget and stopped at the limit
C1_Witness ==
    /\ pc = "idle"
    /\ max_steps >= 2
    /\ current_step = max_steps
    /\ Len(decisionLog) = max_steps
    /\ lastResult = StepLimitResult(max_steps)

\* the decisions of the run are all actions other than complete and ask_human
OrdinaryRun ==
    /\ decisionLog # <<>>
    /\ \A i \in DOMAIN decisionLog : decisionLog[i].action \in {"click", "analyze"}

(* C2: a run in which the decision engine returns an action at every step,
   none of them complete or ask_human, ends in StepLimitReached with
   success=false and steps == max_steps. *)
C2_StepLimitReached ==
    (pc = "idle" /\ lastCall = "process" /\ lastResult # NoTaskResult /\ OrdinaryRun)
        => lastResult = StepLimitResult(max_steps)

(* C3: when the decision of a step is complete, the action is recorded in
   the history, the run is Completed in that same step and takes no further
   step, the result has success=true and the step count, and an Episode
   with success=true holding the history is added to the episodic memory. *)
C3_Complete ==
    [][ /\ (\E d \in Decisions : d.action = "complete" /\ Decided(d)) =>
              /\ action_history' = Append(action_history, ActionRecord("complete", TRUE))
              /\ is_task_complete'
              /\ pc' = "idle"
              /\ lastResult'.success
              /\ lastResult'.message = "task completed"
              /\ lastResult'.steps = current_step'
              /\ episodes' = Append(episodes, [actions |-> action_history', success |-> TRUE])
        /\ is_task_complete => llmCalls' = llmCalls /\ dispatches' = dispatches ]_vars

\* a run completed at its second step or later
C3_Witness ==
    /\ pc = "idle"
    /\ is_task_complete
    /\ current_step >= 2
    /\ Last(decisionLog).action = "complete"
    /\ lastResult = CompletedResult(current_step)
    /\ Last(episodes) = [actions |-> action_history, success |-> TRUE]

(* C4 as stated: on every termination path of a run, whatever the outcome,
   the history is converted to an Episode whose success flag is the
   result's and the Episode is added to the store before process() returns. *)
C4_EpisodeOnEveryPath ==
    [][ RunReturns =>
          episodes' = Append(episodes, Episode(action_history', lastResult'.success)) ]_vars

(* C4 amended: on every termination path of a run that recorded at least
   one action, the history is converted to an Episode whose success flag is
   the result's and the Episode is added to the store before process()
   returns; a run that recorded no action stores no Episode. *)
C4_EpisodeIfHistory ==
    [][ RunReturns =>
          IF action_history' # <<>>
          THEN episodes' = Append(episodes, Episode(action_history', lastResult'.success))
          ELSE episodes' = episodes ]_vars

\* a run that failed with an exception after recording actions stored a
\* failure episode
C4_Witness ==
    /\ pc = "idle"
    /\ raised # "none"
    /\ Len(action_history) >= 2
    /\ episodes # <<>>
    /\ Last(episodes) = Episode(action_history, FALSE)
    /\ ~lastResult.success

(* C5: when decide_next_action returns no decision, the loop is left
   without dispatching an action and the run ends Failed, with a result
   that carries the failure and differs from the StepLimitReached result. *)
C5_NoDecisionFails ==
    [][ Decided(NoDecision) =>
          /\ dispatches' = dispatches
          /\ pc' = "idle"
          /\ ~lastResult'.success
          /\ lastResult'.error # Absent
          /\ lastResult'.message # "step limit reached" ]_vars

(* C6: process() with an empty or missing task returns the empty-task
   error (success=false) and does nothing else: no navigation, no reset of
   the history or of the task context, no loop, no Episode. *)
C6_EmptyTask ==
    [][ (\E u \in Urls, cok \in BOOLEAN : process("", u, cok)) =>
          /\ lastResult' = NoTaskResult
          /\ ~lastResult'.success
          /\ navigated' = "none"
          /\ UNCHANGED <<action_history, current_task, pc, current_step,
                         is_task_complete, needs_human_input, is_active,
                         system_context, episodes, decisionLog, llmCalls,
                         dispatches, runs>> ]_vars

\* the empty-task error returned after a run whose history and task
\* context are still there
C6_Witness ==
    /\ lastCall = "process"
    /\ lastResult = NoTaskResult
    /\ action_history # <<>>
    /\ current_task # NoTask
    /\ episodes # <<>>

(* C7: an exception raised inside the step loop ends the run as Failed:
   success=false, the exception's message, the step counter reached when
   it was raised; process() returns that result instead of raising. *)
C7_ExceptionFails ==
    [][ (raised = "none" /\ raised' # "none") =>
          /\ pc' = "idle"
          /\ lastCall' = "process"
          /\ ~lastResult'.success
          /\ lastResult'.error = raised'
          /\ lastResult'.steps = current_step'
          /\ current_step' = current_step + 1
          /\ ~is_active' ]_vars

\* a run failed with an exception at its second step or later
C7_Witness ==
    /\ pc = "idle"
    /\ raised # "none"
    /\ current_step >= 2
    /\ lastResult.error = raised
    /\ lastResult.steps = current_step

(* C8: when the decision of a step is ask_human, the action is recorded,
   NeedsHumanInput is set, the run takes no further step, and the result
   (success=false) carries the question of the action's parameters and the
   current step. *)
C8_AskHuman ==
    [][ \A d \in Decisions : (d.action = "ask_human" /\ Decided(d)) =>
          /\ action_history' = Append(action_history, ActionRecord("ask_human", TRUE))
          /\ needs_human_input'
          /\ pc' = "idle"
          /\ ~lastResult'.success
          /\ lastResult'.question = QuestionOf(d)
          /\ lastResult'.current_step = current_step' ]_vars

\* provide_human_input(inp) is called in a state, or with an input, in
\* which it is not valid
InvalidHumanInput(inp) ==
    \/ ~needs_human_input
    \/ inp.instruction # "continue" /\ inp.answer = ""

(* C9: provide_human_input called outside NeedsHumanInput, or in it with
   neither instruction "continue" nor a non-empty answer, returns
   success=false and leaves the flag, the guidance and the history as
   they were. *)
C9_InvalidHumanInput ==
    [][ \A inp \in HumanInputs :
          (provide_human_input(inp) /\ InvalidHumanInput(inp)) =>
              /\ ~lastResult'.success
              /\ UNCHANGED <<needs_human_input, system_context, action_history>> ]_vars

\* an invalid input was refused while the agent waits for the human
C9_Witness ==
    /\ needs_human_input
    /\ lastCall = "provide_human_input"
    /\ lastResult.message = "invalid human input"
    /\ action_history # <<>>

(* C10: provide_human_input called in NeedsHumanInput with "continue" or an
   answer clears the flag, appends the answer (if given instead of
   "continue") to the guidance, and resumes the step loop of the paused
   task, so that further steps of it are executed. *)
C10_Resumes ==
    [][ \A inp \in HumanInputs :
          (provide_human_input(inp) /\ ~InvalidHumanInput(inp)) =>
              /\ ~needs_human_input'
              /\ inp.instruction # "continue" =>
                    system_context' = Append(system_context, inp.answer)
              /\ pc' = "running"
              /\ is_active' ]_vars

(* C11: every call of process() with a non-empty task, in whatever state
   the agent is when it is called, returns a result that carries a success
   flag, a message and the step count reached (under the key steps, or
   current_step in the result that asks for the human). *)
C11_TerminalResult ==
    [][ RunReturns =>
          /\ lastResult' # NoResult
          /\ lastResult'.success \in BOOLEAN
          /\ lastResult'.message # "<None>"
          /\ \/ lastResult'.steps = current_step'
             \/ lastResult'.current_step = current_step' ]_vars

(* C14: at every point the action history of the ContextManager holds
   exactly the ActionRecords appended since the latest start_new_task (none
   right after it), in insertion order, never more than max_history of
   them; an append to a full history evicts the oldest record. *)
C14_HistoryOfCurrentTask ==
    /\ Len(action_history) <= max_history
    /\ action_history = LastN(appended, max_history)
    /\ Len(appended) <= max_history => action_history = appended

\* more records than max_history were appended to the task's history
C14_Witness ==
    /\ max_history >= 2
    /\ Len(appended) > max_history
    /\ Len(action_history) = max_history
    /\ action_history[1] = appended[Len(appended) - max_history + 1]
    /\ action_history[1] # appended[1]

\* decide_next_action has returned
Decision_Returned == decision # NotDecided

\* the reply holds a JSON object with the keys action and description
StructuralParseOk(r) ==
    r.json = "object" /\ {"action", "description"} \subseteq r.keys

\* the reply shows nothing an action could be made of: no JSON object with
\* the required keys, no "action" and "parameters" pair, no keyword
NothingToRecognize(r) ==
    /\ ~StructuralParseOk(r)
    /\ ~({"action", "parameters"} \subseteq r.keys /\ r.params # "nonmap")
    /\ r.keywords = {}

(* C12: for every reply text of the decision source decide_next_action
   returns a structured action and never None; it returns None only when
   the call of the decision source failed; when no action can be recognized
   in the reply it returns the default analyze action with confidence 1.0. *)
C12_NeverNone ==
    Decision_Returned =>
        /\ reply.call = "ok" => decision # NoActionData /\ decision.action # "None"
        /\ decision = NoActionData => reply.call = "raised"
        /\ (reply.call = "ok" /\ NothingToRecognize(reply)) =>
              /\ decision.action = "analyze"
              /\ decision.confidence = "1.0"
              /\ decision.reasoning = "action not recognized"

\* a reply with broken JSON and nothing else in it got the default action
C12_Witness ==
    /\ Decision_Returned
    /\ reply.call = "ok"
    /\ reply.json = "invalid"
    /\ NothingToRecognize(reply)
    /\ decision = DefaultAnalyze

\* the tag the keyword parser tells from the text of the reply
KeywordTagOf(r) ==
    LET hits == {i \in DOMAIN KeywordTags : KeywordTags[i] \in r.keywords}
    IN  KeywordTags[CHOOSE i \in hits : \A j \in hits : i <= j]

(* C13: whenever the structural parse of the reply fails (no brace-delimited
   substring, one that is not valid JSON, or valid JSON without action or
   description) the keyword parser is tried on the reply, and the default
   analyze action is returned only if that parser recognizes no action
   either. *)
C13_FallbackOnEveryFailure ==
    (Decision_Returned /\ reply.call = "ok" /\ ~StructuralParseOk(reply)) =>
        /\ decision.reasoning = "action not recognized" => reply.keywords = {}
        /\ (reply.keywords # {} /\ decision.reasoning = "text analysis"
              /\ decision.action # NamedTag) =>
                 decision.action = KeywordTagOf(reply)

(* C15: episode storage is append-only and survives across runs: over any
   sequence of add_episode, find_similar_episodes, save and re-construction
   of the store from its file, every episode once added stays in the list at
   its position with its fields unchanged, and each add_episode appends
   exactly one episode at the end. *)
C15_AppendOnly ==
    [][ /\ Len(mem_episodes') >= Len(mem_episodes)
        /\ SubSeq(mem_episodes', 1, Len(mem_episodes)) = mem_episodes
        /\ \A url \in EpisodeUrls, page_type \in PageTypes, actions \in ActionLists,
              success \in BOOLEAN :
              mem_add_episode(url, page_type, actions, success) =>
                  mem_episodes' = Append(mem_episodes,
                      NewEpisode(url, "title", page_type, actions, success)) ]_vars

\* the stored episodes whose pattern list holds the tag
EpisodesWith(tag) ==
    {i \in DOMAIN mem_episodes : tag \in mem_episodes[i].learned_patterns}

(* C16: in every reachable state of the store the count of each pattern tag
   in the pattern table equals the number of stored episodes whose mined
   pattern list holds the tag: the table can be recomputed from the
   episodes, and no tag has a count without an episode that produced it. *)
C16_PatternCounts ==
    /\ patterns.kind = "dict"
    /\ \A i \in DOMAIN mem_episodes :
          mem_episodes[i].learned_patterns = _extract_patterns(mem_episodes[i].actions)
    /\ \A tag \in DOMAIN patterns.counts :
          /\ EpisodesWith(tag) # {}
          /\ patterns.counts[tag] = Cardinality(EpisodesWith(tag))
    /\ \A i \in DOMAIN mem_episodes :
          mem_episodes[i].learned_patterns \subseteq DOMAIN patterns.counts

\* two episodes share one pattern and differ in another
C16_Witness ==
    /\ Len(mem_episodes) = 2
    /\ \E tag \in DOMAIN patterns.counts : patterns.counts[tag] = 2
    /\ \E tag \in DOMAIN patterns.counts : patterns.counts[tag] = 1

\* the latest call on the store was a query; its arguments and its result
Queried == memCall.op = "find_similar_episodes"
\* the score the claims give episode i for the query
ClaimedScore(i) ==
    LET e == mem_episodes[i]
    IN  2 * (IF memCall.url # <<>> /\ IsSubstring(memCall.url, e.url) THEN 1 ELSE 0)
          + (IF memCall.page_type # "" /\ memCall.page_type = e.page_type THEN 1 ELSE 0)
          + (IF e.success THEN 1 ELSE 0)
\* episode i is among the episodes returned
Returned(i) == \E k \in DOMAIN memResult.found : memResult.found[k] = i
\* episode j is returned and episode i is not, or comes behind it
RankedAfter(i, j) ==
    \E l \in DOMAIN memResult.found :
        /\ memResult.found[l] = j
        /\ \A k \in 1..l : memResult.found[k] # i

(* C17: find_similar_episodes(url, page_type, max_results) scores every
   stored episode 2*(url given and a substring of the episode's URL) +
   1*(page_type given and equal) + 1*(episode succeeded), leaves out every
   episode scoring 0, and returns the first max_results episodes in order of
   descending score, equal scores in stored order. *)
C17_Ranking ==
    Queried =>
      LET found    == memResult.found
          positive == {i \in DOMAIN mem_episodes : ClaimedScore(i) > 0}
      IN  /\ \A k \in DOMAIN found : found[k] \in positive
          /\ \A k, l \in DOMAIN found : k # l => found[k] # found[l]
          /\ Len(found) = IF memCall.max_results < Cardinality(positive)
                          THEN memCall.max_results ELSE Cardinality(positive)
          /\ \A i, j \in positive :
                (ClaimedScore(i) > ClaimedScore(j)
                   \/ (ClaimedScore(i) = ClaimedScore(j) /\ i < j)) =>
                      ~RankedAfter(i, j)

\* two episodes of equal score were found and only the older was returned
C17_Witness ==
    /\ Queried
    /\ memCall.url # <<>>
    /\ memCall.max_results = 1
    /\ Len(mem_episodes) = 2
    /\ ClaimedScore(1) = ClaimedScore(2)
    /\ ClaimedScore(1) >= 3
    /\ memResult.found = <<1>>

\* episode i matches the URL and the page type of the query
MatchesBoth(i) ==
    /\ memCall.url # <<>> /\ IsSubstring(memCall.url, mem_episodes[i].url)
    /\ memCall.page_type # "" /\ memCall.page_type = mem_episodes[i].page_type
\* episode j matches exactly one of the two
MatchesOne(j) ==
    (memCall.url # <<>> /\ IsSubstring(memCall.url, mem_episodes[j].url))
       # (memCall.page_type # "" /\ memCall.page_type = mem_episodes[j].page_type)
\* the score find_similar_episodes gives episode i for the query
ScoreOf(i) == EpisodeScore(mem_episodes[i], memCall.url, memCall.page_type)

(* C18 as stated: an episode matching both the URL and the page type of
   the query never scores below, and is never ranked after, an episode
   matching only one of the two, whatever their success flags. *)
C18_NeverRankedAfter ==
    Queried =>
      \A i, j \in DOMAIN mem_episodes :
          (MatchesBoth(i) /\ MatchesOne(j)) =>
              ScoreOf(i) >= ScoreOf(j) /\ ~RankedAfter(i, j)

(* C18 amended: an episode matching both the URL and the page type of the
   query never scores below an episode matching only one of the two; it is
   ranked after that episode only when the two scores are equal (it failed,
   the other matches the URL and succeeded) and the other was stored first. *)
C18_ScoreMonotonic ==
    Queried =>
      \A i, j \in DOMAIN mem_episodes :
          (MatchesBoth(i) /\ MatchesOne(j)) =>
              /\ ScoreOf(i) >= ScoreOf(j)
              /\ RankedAfter(i, j) =>
                    /\ ScoreOf(i) = ScoreOf(j)
                    /\ j < i
                    /\ ~mem_episodes[i].success
                    /\ mem_episodes[j].success
                    /\ IsSubstring(memCall.url, mem_episodes[j].url)

\* a failed episode matching both came behind an older successful one
\* matching the URL only
C18_Witness ==
    /\ Queried
    /\ Len(mem_episodes) = 2
    /\ MatchesBoth(2) /\ MatchesOne(1)
    /\ ScoreOf(1) = ScoreOf(2)
    /\ memResult.found = <<1, 2>>

(* C19: after any sequence of add_episode calls, saving the store and
   constructing a new EpisodicMemory from the same file gives an episode
   list identical in order and in every field, and an identical pattern
   table. *)
C19_RoundTrip ==
    [][ mem_construct => mem_episodes' = mem_episodes /\ patterns' = patterns ]_vars

\* the backing file is missing or corrupt: no text json.load accepts, no
\* object, or an object with a wrong value under "episodes" or "patterns"
FileCorrupt(file) ==
    \/ file.kind # "object"
    \/ file.episodes.kind = "null"
    \/ \E i \in DOMAIN file.episodes.items : DOMAIN file.episodes.items[i] # EpisodeFields
    \/ file.patterns.kind \in {"None", "list"}

(* C20: constructing EpisodicMemory when the backing file is absent or
   corrupt never raises and gives a store with an empty episode list and an
   empty pattern table, and the file is written after every later
   add_episode. *)
C20_CorruptFileStartsEmpty ==
    /\ (memCall.op = "construct" /\ FileCorrupt(storage_file)) =>
          mem_episodes = <<>> /\ patterns = EmptyTable
    /\ memCall.op = "add_episode" =>
          /\ memResult.raised = "none"
          /\ storage_file = BackingFile("object", FileEpisodes("list", mem_episodes), patterns)

(* ----------------------------- reflection ----------------------------- *)
\* a step of the loop has recorded its action and did not leave the loop
\* by complete or ask_human
StepRecorded ==
    /\ pc = "running"
    /\ Len(appended') = Len(appended) + 1
    /\ Last(decisionLog').action \notin {"complete", "ask_human"}

\* C26: with reflection enabled, after every recorded step whose number is
\* a multiple of 5 the reflection runs and the run goes on (to the next
\* step, or to the step-limit result when the budget is used up), the
\* guidance unchanged or one lesson longer; after any other step the
\* guidance is unchanged
C26_ReflectionEveryFifthStep ==
    [][ (enable_reflection = "on" /\ StepRecorded) =>
          IF current_step' % REFLECTION_EVERY = 0
          THEN /\ raised' = "none"
               /\ pc' = "running" \/ lastResult'.message = "step limit reached"
               /\ \/ system_context' = system_context
                  \/ system_context' = Append(system_context, "lesson")
          ELSE system_context' = system_context ]_vars

\* analyze_failure has been called on the list as it is
Analyzed == lastReflection.op = "analyze_failure"

\* C27: analyze_failure reads the last 5 actions only: when none of them
\* failed it returns needs_correction=False without a plan and asks the
\* decision source nothing, whatever came before them; otherwise it asks
\* the decision source once; it raises in neither case
C27_WindowOfFive ==
    Analyzed =>
        /\ lastReflection.result.raised = "none"
        /\ lastReflection.result.llm_calls <= 1
        /\ IF \A i \in 1..Len(dict_history) :
                  i > Len(dict_history) - FAILURE_WINDOW => ~DictFailed(dict_history[i])
           THEN /\ ~lastReflection.result.needs_correction
                /\ lastReflection.result.correction_plan = PyNone
                /\ lastReflection.result.llm_calls = 0
           ELSE lastReflection.result.llm_calls = 1

\* a list of six actions whose first failed and whose last five succeeded
\* was analysed without a request to the decision source
C27_Witness ==
    /\ Analyzed
    /\ Len(dict_history) = FAILURE_WINDOW + 1
    /\ DictFailed(dict_history[1])
    /\ \A i \in 2..Len(dict_history) : ~DictFailed(dict_history[i])
    /\ lastReflection.result.llm_calls = 0
    /\ ~lastReflection.result.needs_correction

\* C28: when the decision source fails while the agent reflects, the
\* reflection raises nothing and the guidance stays as it was
C28_ReflectionSurvivesFailure ==
    [][ ( /\ lastReflection'.op = "_perform_reflection"
          /\ lastReflection' # lastReflection
          /\ lastReflection'.response.call = "raise" )
        => /\ lastReflection'.result.raised = "none"
           /\ system_context' = system_context ]_vars

(* -------------------------- action execution ------------------------- *)
\* a step of the loop has handed a browser action to ActionTools
BrowserActionDispatched ==
    /\ pc = "running"
    /\ dispatches' = dispatches + 1
    /\ Last(decisionLog').action \in ACTION_MAPPING \ {"wait"}

\* C29: a browser action is recorded in the history with its result, and
\* when the result is unsuccessful nothing is raised and the run goes on (to
\* the next step, or to the step-limit result when the budget is used up)
C29_FailedActionRecovered ==
    [][ BrowserActionDispatched =>
          /\ Len(appended') = Len(appended) + 1
          /\ Last(appended').action_type = Last(decisionLog').action
          /\ ~Last(appended').success =>
                /\ raised' = "none"
                /\ pc' = "running" \/ lastResult'.message = "step limit reached" ]_vars

\* the actions _execute_action handles itself
SpecialActions == {"analyze", "complete", "ask_human", "wait"}

\* C30: a special action always yields a successful result: the step that
\* decided it records it in the history with success true
C30_SpecialActionSucceeds ==
    [][ (pc = "running" /\ llmCalls' = llmCalls + 1
           /\ Last(decisionLog').action \in SpecialActions)
        => /\ Len(appended') = Len(appended) + 1
           /\ Last(appended').action_type = Last(decisionLog').action
           /\ Last(appended').success ]_vars

(* ---------------------------- ElementFinder --------------------------- *)
\* find_element_by_description has been called on the page as it is
FinderCalled == finderCalls > 0

\* element i is visible and its text equals or contains the quoted literal
\* of the latest description
LiteralMatches(i) ==
    /\ page[i].displayed
    /\ IsSubstring(lastFind.description.literal, page[i].text)

\* element i is the one visible element the literal matches
OnlyLiteralMatch(i) ==
    /\ LiteralMatches(i)
    /\ \A j \in 1..Len(page) : LiteralMatches(j) => j = i

\* C21 as stated: a description with a quoted literal that matches the text
\* of exactly one visible element resolves to that element
C21_QuotedLiteralResolves ==
    (FinderCalled /\ lastFind.description.literal # NoLiteral)
        => \A i \in 1..Len(page) :
              OnlyLiteralMatch(i) => lastFind.outcome.element = i

\* C21, amended: find_element_by_description never raises; it returns None
\* when the page holds no visible, enabled element; and a description
\* without search or button intent words whose literal follows the text
\* marker resolves to the one visible element the literal matches, when
\* that element is enabled
C21_MarkedLiteralResolves ==
    FinderCalled =>
        /\ ~lastFind.outcome.raised
        /\ (\A i \in 1..Len(page) : ~Usable(page, i))
              => lastFind.outcome.element = NotFound
        /\ ( /\ lastFind.description.marked
             /\ ~Mentions(lastFind.description, SearchIntentWords)
             /\ ~Mentions(lastFind.description, ButtonIntentWords) )
              => \A i \in 1..Len(page) :
                    (OnlyLiteralMatch(i) /\ page[i].enabled)
                        => lastFind.outcome.element = i

\* a marked literal picked the second element of a page whose first element
\* is visible and enabled too
C21_Witness ==
    /\ FinderCalled
    /\ lastFind.description.marked
    /\ ~Mentions(lastFind.description, SearchIntentWords)
    /\ ~Mentions(lastFind.description, ButtonIntentWords)
    /\ Len(page) = 2
    /\ Usable(page, 1)
    /\ OnlyLiteralMatch(2)
    /\ lastFind.outcome.element = 2

\* no description-driven tier of the latest call matched an element
DescriptionTiersFailed ==
    LET d == lastFind.description
    IN  /\ d.str
        /\ Mentions(d, SearchIntentWords) => SearchTier(page) = NotFound
        /\ (~Mentions(d, SearchIntentWords) /\ Mentions(d, ButtonIntentWords))
              => ButtonTier(page) = NotFound
        /\ d.marked => TextTier(page, d.literal) = NotFound
        /\ d.name # "" => AttributeTier(page, d.name) = NotFound

\* the elements the candidate list of _get_interactive_elements describes:
\* for each xpath of the list, the element described last under it
CandidateElements ==
    LET described == Described(page, InteractiveSelectors)
        cands     == _get_interactive_elements(page)
    IN  [k \in 1..Len(cands) |->
            described[CHOOSE n \in 1..Len(described) :
                        /\ XPath(page, described[n]) = cands[k]
                        /\ \A m \in (n + 1)..Len(described) :
                              XPath(page, described[m]) # cands[k]]]

\* C22: when every description-driven tier fails, the call returns the first
\* enabled, visible element of the candidate list, and None only if the
\* list holds no enabled, visible element
C22_FallbackFirstCandidate ==
    (FinderCalled /\ DescriptionTiersFailed)
        => lastFind.outcome.element
              = FirstWhere(CandidateElements, {i \in 1..Len(page) : Usable(page, i)})

\* C23: two calls of find_element_by_description with the same description
\* on the same page give the same outcome
C23_Deterministic ==
    (FinderCalled /\ earlierOutcome # NoOutcome)
        => lastFind.outcome = earlierOutcome

\* the same description was resolved twice on a page of several elements, to
\* an element that is not the first of the page
C23_Witness ==
    /\ finderCalls = 2
    /\ earlierOutcome # NoOutcome
    /\ lastFind.outcome.element > 1
    /\ Len(page) >= 2

(* ------------------------ SimpleAIBrowserAgent ------------------------ *)
\* a step of the model that is one iteration of the loop of run_task
RunTaskIterates == iterations' = iterations + 1

\* C24: the forced search runs in an iteration exactly when the counter of
\* consecutive errors reaches 2 in it, which is when the iteration failed
\* and so did the one before it with no forced search since; the forced
\* search asks the decision source nothing (an iteration asks it once, when
\* page analysis succeeds), and the counter is back at 0 when the iteration
\* ends, so it is below 2 whenever an iteration starts
C24_ForcedSearchAtTwo ==
    [][ RunTaskIterates =>
          /\ lastIteration'.forced <=> lastIteration'.peak >= ERROR_THRESHOLD
          /\ lastIteration'.forced <=>
                 /\ lastIteration'.failed
                 /\ lastIteration.failed
                 /\ ~lastIteration.forced
          /\ lastIteration'.forced => consecutive_errors' = 0
          /\ lastIteration'.asked = IF lastIteration'.analysed THEN 1 ELSE 0
          /\ consecutive_errors < ERROR_THRESHOLD
          /\ consecutive_errors' < ERROR_THRESHOLD ]_vars

\* the second of two failed actions in a row forced the search, and the
\* loop goes on with the counter at 0
C24_Witness ==
    /\ spc = "looping"
    /\ lastIteration.forced
    /\ lastIteration.executed
    /\ lastIteration.peak = ERROR_THRESHOLD
    /\ consecutive_errors = 0
    /\ Len(task_history) = 2

\* C25: run_task makes at most max_steps iterations of its loop
C25_AtMostMaxStepsIterations == iterations <= simple_max_steps

(* --------------------------- memory advice --------------------------- *)
\* a get_advice call returned last
Advised == advice.called

\* the episode at position i is similar to the page type of the latest
\* query: it has a positive score for that page type with no URL given
SimilarToPageType(i) ==
    EpisodeScore(mem_episodes[i], <<>>, memCall.page_type) > 0

\* the successful actions among the last five of the episode at position i
RecentSuccessful(i) ==
    { j \in DOMAIN mem_episodes[i].actions :
        /\ j > Len(mem_episodes[i].actions) - 5
        /\ mem_episodes[i].actions[j].result.success }

\* C31: get_advice looks similar episodes up by the page type alone; its
\* text is empty when no stored episode is similar to that page type, and
\* otherwise it renders at most 3 similar episodes, each with only the
\* successful actions among its last 5 and at most 3 of its pattern tags
C31_AdviceText ==
    Advised =>
      /\ memCall.url = <<>>
      /\ (\A i \in DOMAIN mem_episodes : ~SimilarToPageType(i)) => advice = EmptyText
      /\ (\E i \in DOMAIN mem_episodes : SimilarToPageType(i)) =>
            advice.header /\ Len(advice.blocks) \in 1..3
      /\ \A k \in DOMAIN advice.blocks :
            LET b == advice.blocks[k]
                e == mem_episodes[b.episode]
            IN  /\ SimilarToPageType(b.episode)
                /\ \A m \in DOMAIN advice.blocks : m # k => advice.blocks[m].episode # b.episode
                /\ Len(b.actions) = Cardinality(RecentSuccessful(b.episode))
                /\ \A m \in DOMAIN b.actions :
                      \E j \in RecentSuccessful(b.episode) :
                          e.actions[j].action_description = b.actions[m]
                /\ b.patterns \subseteq e.learned_patterns
                /\ Cardinality(b.patterns) <= 3

\* advice from a store of more than three similar episodes, one of them
\* with more than five actions and more than three pattern tags
C31_Witness ==
    /\ Advised
    /\ Cardinality({i \in DOMAIN mem_episodes : SimilarToPageType(i)}) > 3
    /\ Len(advice.blocks) = 3
    /\ \E k \in DOMAIN advice.blocks :
          /\ Len(mem_episodes[advice.blocks[k].episode].actions) > 5
          /\ Cardinality(mem_episodes[advice.blocks[k].episode].learned_patterns) > 3
          /\ Len(advice.blocks[k].actions) = 4
          /\ Cardinality(advice.blocks[k].patterns) = 3

\* C39: find_similar_episodes returns every successful stored episode,
\* up to max_results, whatever the query: a successful episode is left
\* out only of a full result none of whose episodes scores less.  So
\* get_advice returns text whenever the store holds a successful episode
C39_SuccessAlwaysSimilar ==
    /\ Queried =>
          \A i \in DOMAIN mem_episodes :
              mem_episodes[i].success /\ ~Returned(i) =>
                 /\ Len(memResult.found) = memCall.max_results
                 /\ \A k \in DOMAIN memResult.found :
                       ScoreOf(memResult.found[k]) >= ScoreOf(i)
    /\ Advised /\ (\E i \in DOMAIN mem_episodes : mem_episodes[i].success) =>
          /\ advice # EmptyText
          /\ advice.header
          /\ advice.blocks # <<>>

\* advice for a page type no stored episode has, rendered from an
\* episode that is similar by its success alone
C39_Witness ==
    /\ Advised
    /\ \A i \in DOMAIN mem_episodes : mem_episodes[i].page_type # memCall.page_type
    /\ \E k \in DOMAIN advice.blocks :
          /\ mem_episodes[advice.blocks[k].episode].success
          /\ ScoreOf(advice.blocks[k].episode) = 1

(* ------------------------- ElementFinder tiers ------------------------ *)
\* the first element of a sequence of tier results that is an element
RECURSIVE FirstFound(_)
FirstFound(results) ==
    IF results = <<>> THEN NotFound
    ELSE IF Head(results) # NotFound THEN Head(results)
    ELSE FirstFound(Tail(results))

\* C32: the tiers are consulted in the order search intent, button intent,
\* quoted literal, attribute fragment, fallback, each one that applies to
\* the description, and the call returns what the first tier that finds an
\* element found; a description with search and button words gets the
\* button tier's element when the search tier finds none
C32_TiersInOrder ==
    (FinderCalled /\ lastFind.description.str) =>
        LET d == lastFind.description
        IN  lastFind.outcome.element
              = FirstFound(<< IF Mentions(d, SearchIntentWords)
                              THEN SearchTier(page) ELSE NotFound,
                              IF Mentions(d, ButtonIntentWords)
                              THEN ButtonTier(page) ELSE NotFound,
                              IF d.marked THEN TextTier(page, d.literal) ELSE NotFound,
                              IF d.name # "" THEN AttributeTier(page, d.name) ELSE NotFound,
                              FallbackTier(page) >>)

\* a button-like element the button tier scans whose text has search
\* vocabulary and that is visible and enabled
VocabularyButton(i) ==
    /\ \E k \in DOMAIN ScanOrder(page, ButtonSelectors) :
          ScanOrder(page, ButtonSelectors)[k] = i
    /\ Usable(page, i)
    /\ ContainsAny(LowerText(page[i].text), SearchVocabulary)

\* the latest call went to the button tier: a description with a button
\* word and no search word
ButtonTierConsulted ==
    /\ FinderCalled
    /\ lastFind.description.str
    /\ Mentions(lastFind.description, ButtonIntentWords)
    /\ ~Mentions(lastFind.description, SearchIntentWords)

\* C33: the button tier prefers a visible, enabled button with search
\* vocabulary in its text over every button that only has a short text: it
\* returns such a button whenever it scanned one
C33_VocabularyButtonPreferred ==
    (ButtonTierConsulted /\ \E i \in 1..Len(page) : VocabularyButton(i))
        => /\ lastFind.outcome.element # NotFound
           /\ VocabularyButton(lastFind.outcome.element)

(* ------------------------- decide_next_action ------------------------- *)
\* C34: one call of decide_next_action makes exactly one llm.generate
\* call, whether that call fails or its reply goes through the parse
\* fallbacks
C34_OneOutboundCall ==
    /\ Decision_Returned => generateCalls = 1
    /\ ~Decision_Returned => generateCalls = 0

\* decide_next_action returned None after its one call raised
C34_Witness ==
    /\ Decision_Returned
    /\ reply.call = "raised"
    /\ decision = NoActionData
    /\ generateCalls = 1

(* ---------------------- stale needs_human_input ----------------------- *)
\* a process() call with a task starts a run
RunStarts == runs' = runs + 1

\* C35: process() does not reset needs_human_input: a run started while
\* the flag is set executes no step (no decision, no action, no record),
\* stores no episode and returns an unsuccessful result, the flag still set
C35_StaleFlagRunsNothing ==
    [][ (RunStarts /\ needs_human_input) =>
          /\ pc' = "idle"
          /\ current_step' = 0
          /\ llmCalls' = llmCalls
          /\ dispatches' = dispatches
          /\ appended' = <<>>
          /\ episodes' = episodes
          /\ lastResult'.success = FALSE
          /\ needs_human_input' ]_vars

\* a second run was started after a run that asked for human input, with
\* no valid provide_human_input call in between, and returned at once
C35_Witness ==
    /\ lastCall = "process"
    /\ runs >= 2
    /\ needs_human_input
    /\ pc = "idle"
    /\ current_step = 0
    /\ lastResult = UnknownErrorResult

(* --------------------------- system guidance -------------------------- *)
\* C36: the system-level guidance list is append-only: every step of the
\* agent (a new run with its start_new_task, a loop step with its
\* add_action, a human input) leaves the entries it had unchanged and in
\* order, so every later decision is made with them
C36_GuidanceAppendOnly ==
    [][ /\ Len(system_context') >= Len(system_context)
        /\ SubSeq(system_context', 1, Len(system_context)) = system_context ]_vars

\* a decision of a later run, made with the guidance a human input of an
\* earlier run left behind the system prompt
C36_Witness ==
    /\ runs >= 2
    /\ decisionLog # <<>>
    /\ Len(system_context) >= 2
    /\ system_context[1] = SystemPrompt

(* ------------------- SimpleAIBrowserAgent counters -------------------- *)
\* C37: in run_task the counter of consecutive errors is 0 or 1 whenever an
\* iteration starts; an iteration with a successful action or a forced
\* search ends with the counter at 0; task_history gains one entry in an
\* iteration that executes an action and none in another, and never has
\* more than max_steps entries
C37_CounterAndHistory ==
    [][ /\ consecutive_errors \in {0, 1}
        /\ consecutive_errors' \in {0, 1}
        /\ Len(task_history') <= simple_max_steps'
        /\ RunTaskIterates =>
              /\ (lastIteration'.executed /\ ~lastIteration'.failed)
                    => consecutive_errors' = 0
              /\ lastIteration'.forced => consecutive_errors' = 0
              /\ Len(task_history')
                    = Len(task_history) + (IF lastIteration'.executed THEN 1 ELSE 0) ]_vars

\* a run that used all its steps: one entry per step, the last action
\* failed after a success, which leaves the counter at 1
C37_Witness ==
    /\ spc = "idle"
    /\ simple_max_steps >= 2
    /\ Len(task_history) = simple_max_steps
    /\ lastIteration.executed
    /\ lastIteration.failed
    /\ consecutive_errors = 1

(* --------------------------- step counters ---------------------------- *)
\* a step of the task loop
LoopStepTaken == pc = "running" /\ current_step' = current_step + 1

\* C38: once a task has started, TaskContext.current_step is the number of
\* ActionRecords appended since and is at most the agent's current_step; a
\* loop step that recorded an action leaves the two counters equal, and
\* they differ only after a step that recorded none, because no decision
\* was returned or an exception came first
C38_StepCounters ==
    [][ /\ runs' >= 1 =>
              /\ current_task'.current_step = Len(appended')
              /\ current_task'.current_step <= current_step'
        /\ LoopStepTaken =>
              /\ Len(appended') = Len(appended) + 1
                    => current_task'.current_step = current_step'
              /\ current_task'.current_step # current_step' =>
                    /\ appended' = appended
                    /\ \/ raised' # "none"
                       \/ /\ llmCalls' = llmCalls + 1
                          /\ Last(decisionLog') = NoDecision ]_vars

\* a run that recorded two actions and then got no decision at its third
\* step: the agent counts three steps, the task two
C38_Witness ==
    /\ pc = "idle"
    /\ lastCall = "process"
    /\ current_step = 3
    /\ current_task.current_step = 2
    /\ Len(appended) = 2
    /\ raised = "none"

(* ---------------------------- PlanningAgent --------------------------- *)
\* C40 as stated: after any sequence of calls on a PlanningAgent the index
\* lies between 0 and the length of the plan, the steps before the index
\* are the completed ones, and decide_next_action returns the complete
\* action exactly when the index equals the length of the plan
C40_PlanIndex ==
    /\ current_step_index \in 0..Len(current_plan)
    /\ \A k \in 1..Len(current_plan) :
          current_plan[k].is_completed <=> k <= current_step_index
    /\ planCall.op = "decide_next_action" =>
          (planCall.returned.action = "complete"
              <=> current_step_index = Len(current_plan))

\* C40, amended: the index lies between 0 and the length of the plan, the
\* steps before the index are the completed ones, and decide_next_action
\* returns its own end-of-plan action (the finished-task description, no
\* step) exactly when the index equals the length of the plan; below it,
\* it returns the action of the step at the index, whatever tag that is
C40_PlanIndexEndOfPlan ==
    /\ current_step_index \in 0..Len(current_plan)
    /\ \A k \in 1..Len(current_plan) :
          current_plan[k].is_completed <=> k <= current_step_index
    /\ planCall.op = "decide_next_action" =>
          /\ planCall.returned.finished <=> current_step_index = Len(current_plan)
          /\ planCall.returned.finished =>
                /\ planCall.returned.action = "complete"
                /\ planCall.returned.step_info = NoPlanStep
          /\ ~planCall.returned.finished =>
                /\ planCall.returned.step_info = current_plan[current_step_index + 1]
                /\ planCall.returned.action
                      = current_plan[current_step_index + 1].action

\* decide_next_action at the end of a plan that was adjusted and then
\* completed step by step
C40_Witness ==
    /\ planCall.op = "decide_next_action"
    /\ planCall.returned.finished
    /\ current_step_index = Len(current_plan)
    /\ \E k \in 1..Len(current_plan) : current_plan[k].alternative

====
